---------------------------- MODULE Spec2Model ----------------------------
(***************************************************************************)
(* A model of the SQLite query generator                                   *)
(* (src/src/dialects/sqlite/query-generator.js).                           *)
(*                                                                         *)
(* SQL text is a sequence of lexemes.  A lexeme is a single punctuation    *)
(* character (a member of Punct, the blank included) or a maximal run of   *)
(* word characters.  Every string the generator searches for or replaces   *)
(* ('PRIMARY KEY', ' REFERENCES', 'NOT NULL', ...) starts and ends at      *)
(* lexeme borders of the texts it is applied to, so String.includes,       *)
(* String.indexOf and String.replace become operations on lexeme           *)
(* sequences; the two searches that look inside a word ('INT',             *)
(* 'AUTOINCREMENT') are computed on the word with string concatenation.    *)
(* Positions are 1-based here and 0-based in the source; "not found" is 0  *)
(* here and -1 in the source.                                              *)
(***************************************************************************)
EXTENDS Integers, Sequences, FiniteSets, TLC

(***************************************************************************)
(* Bounds of the model.                                                    *)
(***************************************************************************)
MaxAttrs == 3

(***************************************************************************)
(* Text: lexeme sequences and the JavaScript string operations on them.    *)
(***************************************************************************)
\* The lexeme of the backtick character, which a TLA+ string cannot hold.
Tick == "BACKTICK"
DoubleQuote == "\""
SingleQuote == "'"

Punct ==
  {" ", ",", "(", ")", ";", Tick, DoubleQuote, SingleQuote, ".", "=", "$", "+", "-", "%",
   "[", "]"}

IsWordLexeme(l) == l \notin Punct

\* String concatenation: two word runs that meet become one word.
Cat(a, b) ==
  IF a = <<>> THEN b
  ELSE IF b = <<>> THEN a
  ELSE IF IsWordLexeme(a[Len(a)]) /\ IsWordLexeme(b[1])
       THEN SubSeq(a, 1, Len(a) - 1) \o <<a[Len(a)] \o b[1]>> \o Tail(b)
       ELSE a \o b

Cat3(a, b, c) == Cat(Cat(a, b), c)

\* The words of ws separated by single blanks: Sp(<<"NOT", "NULL">>) is 'NOT NULL'.
RECURSIVE Sp(_)
Sp(ws) ==
  IF ws = <<>> THEN <<>>
  ELSE IF Len(ws) = 1 THEN <<ws[1]>>
  ELSE <<ws[1], " ">> \o Sp(Tail(ws))

MatchAt(s, i, p) ==
  /\ i >= 1
  /\ i + Len(p) - 1 <= Len(s)
  /\ \A k \in 1..Len(p) : s[i + k - 1] = p[k]

SetMin(S) == CHOOSE x \in S : \A y \in S : x <= y

\* String.prototype.indexOf
IndexOf(s, p) ==
  LET hits == {i \in 1..(Len(s) + 1) : MatchAt(s, i, p)}
  IN  IF hits = {} THEN 0 ELSE SetMin(hits)

\* String.prototype.includes
Includes(s, p) == IndexOf(s, p) # 0

\* String.prototype.replace with a string pattern: the first occurrence only.
ReplaceFirst(s, p, r) ==
  LET i == IndexOf(s, p)
  IN  IF i = 0 THEN s
      ELSE Cat3(SubSeq(s, 1, i - 1), r, SubSeq(s, i + Len(p), Len(s)))

\* String.prototype.slice(from)
SliceFrom(s, i) == SubSeq(s, i, Len(s))

\* The pieces a word of the model can have around a searched word.
Affixes == {"", "EGER", "BIG", "X", "hood", "ish", "_backup", "0", "1"}

\* String.prototype.includes for a pattern that lies inside one word.
WordIncludes(l, w) == \E a \in Affixes, b \in Affixes : (a \o w) \o b = l

IncludesInWord(s, w) == \E i \in 1..Len(s) : WordIncludes(s[i], w)

\* Array.prototype.join
RECURSIVE Join(_, _)
Join(texts, sep) ==
  IF texts = <<>> THEN <<>>
  ELSE IF Len(texts) = 1 THEN texts[1]
  ELSE Cat3(texts[1], sep, Join(Tail(texts), sep))

PRIMARY_KEY == Sp(<<"PRIMARY", "KEY">>)
NOT_NULL == Sp(<<"NOT", "NULL">>)


\* The concatenation of the texts of a sequence (a template literal).
RECURSIVE CatAll(_)
CatAll(texts) ==
  IF texts = <<>> THEN <<>> ELSE Cat(texts[1], CatAll(Tail(texts)))

(***************************************************************************)
(* Identifier quoting.                                                     *)
(***************************************************************************)
\* Utils.removeTicks(s, tickChar): s without any tickChar.
RECURSIVE RemoveTicks(_, _)
RemoveTicks(s, tickChar) ==
  IF s = <<>> THEN <<>>
  ELSE IF s[1] = tickChar THEN RemoveTicks(Tail(s), tickChar)
  ELSE Cat(<<s[1]>>, RemoveTicks(Tail(s), tickChar))

\* Utils.addTicks(s, tickChar): s between two tickChar.
AddTicks(s, tickChar) == <<tickChar>> \o s \o <<tickChar>>

\* Quoting between double quotes instead of backticks.
quoteIdentifierDouble(identifier) ==
  AddTicks(RemoveTicks(identifier, DoubleQuote), DoubleQuote)

quoteIdentifier(identifier) == AddTicks(RemoveTicks(identifier, Tick), Tick)

\* quoteTable of the abstract generator, for a table name given as a string.
quoteTable(tableName) == quoteIdentifier(tableName)

(***************************************************************************)
(* replaceBooleanDefaults: the two global regular-expression replacements. *)
(***************************************************************************)
EndsWithWord(l, w) == \E a \in Affixes : a \o w = l
StartsWithWord(l, w) == \E b \in Affixes : w \o b = l
WordAfter(l, w) == CHOOSE b \in Affixes : w \o b = l
WordText(w) == IF w = "" THEN <<>> ELSE <<w>>

\* Where the value of a DEFAULT that ends lexeme i of s stands: after an optional quote.
ValueAt(s, i) == IF Len(s) >= i + 2 /\ s[i + 2] = SingleQuote THEN i + 3 ELSE i + 2

\* A match of the pattern DEFAULT, blank, optional quote, tok, optional quote starts in
\* lexeme i of s.
DefaultMatchAt(s, i, tok) ==
  /\ Len(s) >= ValueAt(s, i)
  /\ EndsWithWord(s[i], "DEFAULT")
  /\ s[i + 1] = " "
  /\ StartsWithWord(s[ValueAt(s, i)], tok)

ReplaceFirstDefault(s, tok, lit) ==
  LET starts == {i \in 1..Len(s) : DefaultMatchAt(s, i, tok)}
      i == SetMin(starts)
      j == ValueAt(s, i)
      after == WordAfter(s[j], tok)
      last == IF after = "" /\ Len(s) > j /\ s[j + 1] = SingleQuote THEN j + 1 ELSE j
  IN  IF starts = {} THEN s
      ELSE CatAll(<<SubSeq(s, 1, i), <<" ">>, <<lit>>,
                    Cat(WordText(after), SubSeq(s, last + 1, Len(s)))>>)

\* The global replacement, match by match from the left.
RECURSIVE ReplaceAllDefault(_, _, _)
ReplaceAllDefault(s, tok, lit) ==
  LET starts == {i \in 1..Len(s) : DefaultMatchAt(s, i, tok)}
      i == SetMin(starts)
      j == ValueAt(s, i)
      after == WordAfter(s[j], tok)
      last == IF after = "" /\ Len(s) > j /\ s[j + 1] = SingleQuote THEN j + 1 ELSE j
  IN  IF starts = {} THEN s
      ELSE CatAll(<<SubSeq(s, 1, i), <<" ">>, <<lit>>,
                    ReplaceAllDefault(Cat(WordText(after), SubSeq(s, last + 1, Len(s))),
                                      tok, lit)>>)

replaceBooleanDefaults(sql) ==
  ReplaceAllDefault(ReplaceAllDefault(sql, "false", "0"), "true", "1")

(***************************************************************************)
(* Attribute maps.  A JavaScript object is the sequence of its entries in  *)
(* property order.  An attribute value is an SQL string (isObject FALSE,   *)
(* the text in sql) or an attribute description (isObject TRUE).  An empty *)
(* text or an empty word stands for an undefined property.                 *)
(***************************************************************************)
Keys(obj) == [i \in 1..Len(obj) |-> obj[i].key]
Values(obj) == [i \in 1..Len(obj) |-> obj[i].value]

\* obj[key] = value
ObjSet(obj, key, value) ==
  IF \E i \in 1..Len(obj) : obj[i].key = key
  THEN [i \in 1..Len(obj) |->
          IF obj[i].key = key THEN [key |-> key, value |-> value] ELSE obj[i]]
  ELSE Append(obj, [key |-> key, value |-> value])

ToUpperCase(w) ==
  CASE w = "cascade" -> "CASCADE"
    [] w = "restrict" -> "RESTRICT"
    [] w = "timestamp" -> "TIMESTAMP"
    [] w = "datetime" -> "DATETIME"
    [] w = "integer" -> "INTEGER"
    [] OTHER -> w

\* The body of attributesToSQL's loop for an attribute description.
AttributeObjectSql(dataType) ==
  LET s1 == dataType.type
      s2 == IF dataType.allowNull = FALSE THEN Cat(s1, <<" ">> \o NOT_NULL) ELSE s1
      s3 == IF dataType.defaultSchemable
            THEN CatAll(<<s2, <<" ", "DEFAULT", " ">>, dataType.defaultLiteral>>)
            ELSE s2
      s4 == IF dataType.unique = TRUE THEN Cat(s3, <<" ", "UNIQUE">>) ELSE s3
      s5 == IF dataType.primaryKey
            THEN IF dataType.autoIncrement
                 THEN CatAll(<<s4, <<" ">>, PRIMARY_KEY, <<" ", "AUTOINCREMENT">>>>)
                 ELSE CatAll(<<s4, <<" ">>, PRIMARY_KEY>>)
            ELSE s4
      referencesKey == IF dataType.referencesKey # <<>>
                       THEN quoteIdentifier(dataType.referencesKey)
                       ELSE quoteIdentifier(<<"id">>)
      s6 == CatAll(<<s5, <<" ", "REFERENCES", " ">>, quoteTable(dataType.referencesModel),
                     <<" ", "(">>, referencesKey, <<")">>>>)
      s7 == IF dataType.onDelete # ""
            THEN Cat(s6, <<" ", "ON", " ", "DELETE", " ", ToUpperCase(dataType.onDelete)>>)
            ELSE s6
      s8 == IF dataType.onUpdate # ""
            THEN Cat(s7, <<" ", "ON", " ", "UPDATE", " ", ToUpperCase(dataType.onUpdate)>>)
            ELSE s7
  IN  IF dataType.referencesModel # <<>> THEN s8 ELSE s5

RECURSIVE AttributesToSQLInto(_, _)
AttributesToSQLInto(attributes, result) ==
  IF attributes = <<>> THEN result
  ELSE LET name == attributes[1].key
           dataType == attributes[1].value
           fieldName == IF dataType.field # <<>> THEN dataType.field ELSE name
           sql == IF dataType.isObject THEN AttributeObjectSql(dataType) ELSE dataType.sql
       IN  AttributesToSQLInto(Tail(attributes), ObjSet(result, fieldName, sql))

attributesToSQL(attributes) == AttributesToSQLInto(attributes, <<>>)

(***************************************************************************)
(* createTableQuery.  Its attributes map names to SQL strings.             *)
(***************************************************************************)
\* A single key already counts as several.
needsMultiplePrimaryKeysAny(attributes) ==
  Cardinality({i \in 1..Len(attributes) : Includes(attributes[i].value, PRIMARY_KEY)}) > 0

needsMultiplePrimaryKeys(attributes) ==
  Cardinality({i \in 1..Len(attributes) : Includes(attributes[i].value, PRIMARY_KEY)}) > 1

\* The composite-key branches the other way round: NOT NULL written over the marker
\* of a column that has NOT NULL already, the marker cut out of one that has not.
ColumnDataTypeStringSwapped(dataType, multiple) ==
  IF ~Includes(dataType, PRIMARY_KEY) \/ ~multiple THEN dataType
  ELSE IF Includes(dataType, NOT_NULL)
       THEN ReplaceFirst(dataType, PRIMARY_KEY, NOT_NULL)
       ELSE ReplaceFirst(dataType, <<" ">> \o PRIMARY_KEY, <<>>)

\* The column definition createTableQuery writes for dataType.
ColumnDataTypeString(dataType, multiple) ==
  LET containsAutoIncrement == IncludesInWord(dataType, "AUTOINCREMENT")
      integerKey == IF containsAutoIncrement
                    THEN Sp(<<"INTEGER", "PRIMARY", "KEY", "AUTOINCREMENT">>)
                    ELSE Sp(<<"INTEGER", "PRIMARY", "KEY">>)
      references == <<" ", "REFERENCES">>
      forInt == IF Includes(dataType, references)
                THEN Cat(integerKey, SliceFrom(dataType, IndexOf(dataType, references)))
                ELSE integerKey
      single == IF IncludesInWord(dataType, "INT") THEN forInt ELSE dataType
  IN  IF ~Includes(dataType, PRIMARY_KEY) THEN dataType
      ELSE IF multiple
           THEN IF Includes(dataType, NOT_NULL)
                THEN ReplaceFirst(dataType, <<" ">> \o PRIMARY_KEY, <<>>)
                ELSE ReplaceFirst(dataType, PRIMARY_KEY, NOT_NULL)
           ELSE single

\* primaryKeys: the names pushed in the loop, in property order.
PrimaryKeysOf(attributes) ==
  LET multiple == needsMultiplePrimaryKeys(attributes)
      IsKey(entry) == multiple /\ Includes(entry.value, PRIMARY_KEY)
  IN  Keys(SelectSeq(attributes, IsKey))

\* attrArray: one entry per attribute, the quoted name and the definition.
AttrArrayOf(attributes) ==
  [i \in 1..Len(attributes) |->
     CatAll(<<quoteIdentifier(attributes[i].key), <<" ">>,
              ColumnDataTypeString(attributes[i].value,
                                   needsMultiplePrimaryKeys(attributes))>>)]

createTableQuery(tableName, attributes) ==
  LET primaryKeys == PrimaryKeysOf(attributes)
      table == quoteTable(tableName)
      attrStr0 == Join(AttrArrayOf(attributes), <<",", " ">>)
      pkString == Join([i \in 1..Len(primaryKeys) |-> quoteIdentifier(primaryKeys[i])],
                       <<",", " ">>)
      attrStr == IF Len(pkString) > 0
                 THEN CatAll(<<attrStr0, <<",", " ">>, PRIMARY_KEY, <<" ", "(">>,
                               pkString, <<")">>>>)
                 ELSE attrStr0
      sql == CatAll(<<Sp(<<"CREATE", "TABLE", "IF", "NOT", "EXISTS">>), <<" ">>, table,
                      <<" ", "(">>, attrStr, <<")", ";">>>>)
  IN  replaceBooleanDefaults(sql)

(***************************************************************************)
(* Table recreation: removeColumnQuery, _alterConstraintQuery and          *)
(* renameColumnQuery.  Table names are strings here; the branch for a      *)
(* table name given as an object only changes how the backup name is       *)
(* built.                                                                  *)
(***************************************************************************)
BackupTableName(tableName) == Cat(tableName, <<"_backup">>)

\* The quoted names in the opposite order.
QuotedNamesReversed(attributes) ==
  Join([i \in 1..Len(attributes) |->
          quoteIdentifier(attributes[Len(attributes) + 1 - i].key)], <<",", " ">>)

QuotedNames(attributes) ==
  Join([i \in 1..Len(attributes) |-> quoteIdentifier(attributes[i].key)], <<",", " ">>)

InsertSelect(target, selectList, source) ==
  CatAll(<<Sp(<<"INSERT", "INTO">>), <<" ">>, target, <<" ", "SELECT", " ">>, selectList,
           <<" ", "FROM", " ">>, source, <<";">>>>)

DropTable(table) == CatAll(<<Sp(<<"DROP", "TABLE">>), <<" ">>, table, <<";">>>>)

AlterTableRename(from, to) ==
  CatAll(<<Sp(<<"ALTER", "TABLE">>), <<" ">>, from, <<" ">>, Sp(<<"RENAME", "TO">>),
           <<" ">>, to, <<";">>>>)

\* removeColumnQuery with the original dropped before its rows are copied.
removeColumnQueryDropFirst(tableName, attributes0) ==
  LET attributes == attributesToSQL(attributes0)
      backupTableName == BackupTableName(tableName)
      quotedTableName == quoteTable(tableName)
      quotedBackupTableName == quoteTable(backupTableName)
      attributeNames == QuotedNames(attributes)
  IN  CatAll(<<createTableQuery(backupTableName, attributes),
               DropTable(quotedTableName),
               InsertSelect(quotedBackupTableName, attributeNames, quotedTableName),
               AlterTableRename(quotedBackupTableName, quotedTableName)>>)

removeColumnQuery(tableName, attributes0) ==
  LET attributes == attributesToSQL(attributes0)
      backupTableName == BackupTableName(tableName)
      quotedTableName == quoteTable(tableName)
      quotedBackupTableName == quoteTable(backupTableName)
      attributeNames == QuotedNames(attributes)
  IN  CatAll(<<createTableQuery(backupTableName, attributes),
               InsertSelect(quotedBackupTableName, attributeNames, quotedTableName),
               DropTable(quotedTableName),
               AlterTableRename(quotedBackupTableName, quotedTableName)>>)

\* String.prototype.replace(/`/g, '"')
TicksToDoubleQuotes(s) == [i \in 1..Len(s) |-> IF s[i] = Tick THEN DoubleQuote ELSE s[i]]

CreateTablePrefix(quotedName) == Cat(Sp(<<"CREATE", "TABLE">>) \o <<" ">>, quotedName)

_alterConstraintQuery(tableName, attributes0, createTableSql) ==
  LET attributes == attributesToSQL(attributes0)
      backupTableName == BackupTableName(tableName)
      quotedTableName == quoteTable(tableName)
      quotedBackupTableName == quoteTable(backupTableName)
      attributeNames == QuotedNames(attributes)
      replaced == ReplaceFirst(
                    ReplaceFirst(createTableSql, CreateTablePrefix(quotedTableName),
                                 CreateTablePrefix(quotedBackupTableName)),
                    CreateTablePrefix(TicksToDoubleQuotes(quotedTableName)),
                    CreateTablePrefix(quotedBackupTableName))
  IN  CatAll(<<replaced,
               InsertSelect(quotedBackupTableName, attributeNames, quotedTableName),
               DropTable(quotedTableName),
               AlterTableRename(quotedBackupTableName, quotedTableName)>>)

\* An import list that aliases nothing.
ImportNamesPlain(attributes, attrNameBefore, attrNameAfter) ==
  Join([i \in 1..Len(attributes) |-> quoteIdentifier(attributes[i].key)], <<",", " ">>)

\* An import list that aliases the new name to the old one.
ImportNamesBackwards(attributes, attrNameBefore, attrNameAfter) ==
  Join([i \in 1..Len(attributes) |->
          IF attrNameAfter = attributes[i].key
          THEN CatAll(<<quoteIdentifier(attributes[i].key), <<" ", "AS", " ">>,
                        quoteIdentifier(attrNameBefore)>>)
          ELSE quoteIdentifier(attributes[i].key)],
       <<",", " ">>)

\* attributeNamesImport: the old name aliased to the new one.
ImportNames(attributes, attrNameBefore, attrNameAfter) ==
  Join([i \in 1..Len(attributes) |->
          IF attrNameAfter = attributes[i].key
          THEN CatAll(<<quoteIdentifier(attrNameBefore), <<" ", "AS", " ">>,
                        quoteIdentifier(attributes[i].key)>>)
          ELSE quoteIdentifier(attributes[i].key)],
       <<",", " ">>)

\* A rename that leaves the backup table behind.
renameColumnQueryKeepBackup(tableName, attrNameBefore, attrNameAfter, attributes0) ==
  LET attributes == attributesToSQL(attributes0)
      backupTableName == BackupTableName(tableName)
      quotedTableName == quoteTable(tableName)
      quotedBackupTableName == quoteTable(backupTableName)
      attributeNamesImport == ImportNames(attributes, attrNameBefore, attrNameAfter)
      attributeNamesExport == QuotedNames(attributes)
  IN  CatAll(<<createTableQuery(backupTableName, attributes),
               InsertSelect(quotedBackupTableName, attributeNamesImport, quotedTableName),
               DropTable(quotedTableName),
               createTableQuery(tableName, attributes),
               InsertSelect(quotedTableName, attributeNamesExport, quotedBackupTableName)>>)

\* A rename that ends, as the removal does, by renaming the backup table.
renameColumnQueryByRename(tableName, attrNameBefore, attrNameAfter, attributes0) ==
  LET attributes == attributesToSQL(attributes0)
      backupTableName == BackupTableName(tableName)
      quotedTableName == quoteTable(tableName)
      quotedBackupTableName == quoteTable(backupTableName)
      attributeNamesImport == ImportNames(attributes, attrNameBefore, attrNameAfter)
  IN  CatAll(<<createTableQuery(backupTableName, attributes),
               InsertSelect(quotedBackupTableName, attributeNamesImport, quotedTableName),
               DropTable(quotedTableName),
               AlterTableRename(quotedBackupTableName, quotedTableName)>>)

renameColumnQuery(tableName, attrNameBefore, attrNameAfter, attributes0) ==
  LET attributes == attributesToSQL(attributes0)
      backupTableName == BackupTableName(tableName)
      quotedTableName == quoteTable(tableName)
      quotedBackupTableName == quoteTable(backupTableName)
      attributeNamesImport == ImportNames(attributes, attrNameBefore, attrNameAfter)
      attributeNamesExport == QuotedNames(attributes)
  IN  CatAll(<<createTableQuery(backupTableName, attributes),
               InsertSelect(quotedBackupTableName, attributeNamesImport, quotedTableName),
               DropTable(quotedTableName),
               createTableQuery(tableName, attributes),
               InsertSelect(quotedTableName, attributeNamesExport, quotedBackupTableName),
               DropTable(quotedBackupTableName)>>)

(***************************************************************************)
(* The database the generated statements are run against: a set of tables,  *)
(* each with a name, its column names in order and its rows (a row is the   *)
(* sequence of its values, one per column).  The statements are run one at  *)
(* a time, in order; a statement that fails changes nothing and ends the    *)
(* run.                                                                     *)
(***************************************************************************)
\* The k-th smallest member of a set of numbers.
Kth(S, k) == CHOOSE x \in S : Cardinality({y \in S : y < x}) = k - 1

\* F applied to the value of v, which is computed once.
With(F(_), v) == CHOOSE r \in {F(y) : y \in {v}} : TRUE

\* The pieces of s between the positions of the set at.
SplitAt(s, at) ==
  With(LAMBDA cuts :
         [k \in 1..(Cardinality(cuts) + 1) |->
            SubSeq(s, IF k = 1 THEN 1 ELSE Kth(cuts, k - 1) + 1,
                      IF k = Cardinality(cuts) + 1 THEN Len(s) ELSE Kth(cuts, k) - 1)],
       at)

\* The statements of a text: its pieces between semicolons, empty ones dropped.
SplitStatements(text) ==
  SelectSeq(SplitAt(text, {i \in 1..Len(text) : text[i] = ";"}), LAMBDA piece : piece # <<>>)

\* How many parentheses are open before position i of s.
DepthAt(s, i) ==
  Cardinality({j \in 1..(i - 1) : s[j] = "("}) - Cardinality({j \in 1..(i - 1) : s[j] = ")"})

\* The pieces of s between the commas that lie outside parentheses.
SplitTop(s) ==
  With(LAMBDA t : IF t = <<>> THEN <<>>
                  ELSE SplitAt(t, {i \in 1..Len(t) : t[i] = "," /\ DepthAt(t, i) = 0}),
       s)

TrimLeft(s) == IF s # <<>> /\ s[1] = " " THEN Tail(s) ELSE s

NoName == [ok |-> FALSE, name |-> <<>>, next |-> 0]

\* The identifier that starts at position i of s: quoted, or a bare word.
ParseName(s, i) ==
  IF i < 1 \/ i > Len(s) THEN NoName
  ELSE IF s[i] \in {Tick, DoubleQuote}
       THEN LET closing == {j \in (i + 1)..Len(s) : s[j] = s[i]}
            IN  IF closing = {} \/ SetMin(closing) = i + 1 THEN NoName
                ELSE [ok |-> TRUE, name |-> SubSeq(s, i + 1, SetMin(closing) - 1),
                      next |-> SetMin(closing) + 1]
       ELSE IF IsWordLexeme(s[i])
            THEN [ok |-> TRUE, name |-> <<s[i]>>, next |-> i + 1]
            ELSE NoName

HasTable(database, name) == \E t \in database : t.name = name
TableOf(database, name) == CHOOSE t \in database : t.name = name
Position(seq, x) == SetMin({i \in 1..Len(seq) : seq[i] = x})
IsIn(seq, x) == \E i \in 1..Len(seq) : seq[i] = x

Failed(database) == [ok |-> FALSE, db |-> database]
Done(database) == [ok |-> TRUE, db |-> database]

\* CREATE TABLE [IF NOT EXISTS] name (column definition, ..., table constraint)
ExecCreate(database, s) ==
  LET create == Sp(<<"CREATE", "TABLE">>) \o <<" ">>
      ifNotExists == Sp(<<"IF", "NOT", "EXISTS">>) \o <<" ">>
      guarded == MatchAt(s, Len(create) + 1, ifNotExists)
      n == ParseName(s, Len(create) + 1 + (IF guarded THEN Len(ifNotExists) ELSE 0))
      shaped == /\ n.ok
                /\ MatchAt(s, n.next, <<" ", "(">>)
                /\ s[Len(s)] = ")"
                /\ Len(s) > n.next + 2
      Columns(items) ==
        LET columnItems == SelectSeq([i \in 1..Len(items) |-> TrimLeft(items[i])],
                                     LAMBDA it : it = <<>> \/ it[1] # "PRIMARY")
        IN  [i \in 1..Len(columnItems) |-> ParseName(columnItems[i], 1)]
      Created(names) ==
        LET cols == [i \in 1..Len(names) |-> names[i].name]
        IN  IF names = <<>> \/ \E i \in 1..Len(names) : ~names[i].ok THEN Failed(database)
            ELSE IF \E i, j \in 1..Len(cols) : i # j /\ cols[i] = cols[j]
                 THEN Failed(database)
            ELSE IF HasTable(database, n.name)
                 THEN (IF guarded THEN Done(database) ELSE Failed(database))
                 ELSE Done(database \cup {[name |-> n.name, cols |-> cols, rows |-> <<>>]})
  IN  IF ~shaped THEN Failed(database)
      ELSE With(Created, With(Columns, SplitTop(SubSeq(s, n.next + 2, Len(s) - 1))))

\* One entry of a select list: a column, or a column AS another name.
ParseSelectItem(item) ==
  LET n == ParseName(item, 1)
      as == <<" ", "AS", " ">>
      alias == ParseName(item, n.next + Len(as))
  IN  IF ~n.ok THEN [ok |-> FALSE, column |-> <<>>, alias |-> <<>>]
      ELSE IF n.next = Len(item) + 1 THEN [ok |-> TRUE, column |-> n.name, alias |-> <<>>]
      ELSE IF MatchAt(item, n.next, as) /\ alias.ok /\ alias.next = Len(item) + 1
           THEN [ok |-> TRUE, column |-> n.name, alias |-> alias.name]
           ELSE [ok |-> FALSE, column |-> <<>>, alias |-> <<>>]

\* INSERT INTO target SELECT list FROM source: the values go in by position.
ExecInsert(database, s) ==
  LET insert == Sp(<<"INSERT", "INTO">>) \o <<" ">>
      select == <<" ", "SELECT", " ">>
      from == <<" ", "FROM", " ">>
      target == ParseName(s, Len(insert) + 1)
      fromAt == IndexOf(s, from)
      source == ParseName(s, fromAt + Len(from))
      shaped == /\ target.ok
                /\ MatchAt(s, target.next, select)
                /\ fromAt > target.next + Len(select)
                /\ source.ok
                /\ source.next = Len(s) + 1
      listed == SplitTop(SubSeq(s, target.next + Len(select), fromAt - 1))
      items == [i \in 1..Len(listed) |-> ParseSelectItem(TrimLeft(listed[i]))]
  IN  IF ~shaped \/ (\E i \in 1..Len(items) : ~items[i].ok) THEN Failed(database)
      ELSE IF ~HasTable(database, target.name) \/ ~HasTable(database, source.name)
           THEN Failed(database)
      ELSE LET into == TableOf(database, target.name)
               out == TableOf(database, source.name)
           IN  IF \E i \in 1..Len(items) : ~IsIn(out.cols, items[i].column)
               THEN Failed(database)
               ELSE IF Len(items) # Len(into.cols) THEN Failed(database)
               ELSE LET copied == [r \in 1..Len(out.rows) |->
                                     [i \in 1..Len(items) |->
                                        out.rows[r][Position(out.cols, items[i].column)]]]
                        filled == [into EXCEPT !.rows = into.rows \o copied]
                    IN  Done((database \ {into}) \cup {filled})

\* DROP TABLE name
ExecDrop(database, s) ==
  LET drop == Sp(<<"DROP", "TABLE">>) \o <<" ">>
      n == ParseName(s, Len(drop) + 1)
  IN  IF ~n.ok \/ n.next # Len(s) + 1 \/ ~HasTable(database, n.name) THEN Failed(database)
      ELSE Done(database \ {TableOf(database, n.name)})

\* ALTER TABLE name RENAME TO name
ExecRename(database, s) ==
  LET alter == Sp(<<"ALTER", "TABLE">>) \o <<" ">>
      renameTo == <<" ">> \o Sp(<<"RENAME", "TO">>) \o <<" ">>
      n == ParseName(s, Len(alter) + 1)
      m == ParseName(s, n.next + Len(renameTo))
  IN  IF ~n.ok \/ ~MatchAt(s, n.next, renameTo) \/ ~m.ok \/ m.next # Len(s) + 1
      THEN Failed(database)
      ELSE IF ~HasTable(database, n.name) \/ HasTable(database, m.name) THEN Failed(database)
      ELSE Done((database \ {TableOf(database, n.name)})
                  \cup {[TableOf(database, n.name) EXCEPT !.name = m.name]})

StatementKind(s) ==
  IF MatchAt(s, 1, Sp(<<"CREATE", "TABLE">>) \o <<" ">>) THEN "CREATE"
  ELSE IF MatchAt(s, 1, Sp(<<"INSERT", "INTO">>) \o <<" ">>) THEN "INSERT"
  ELSE IF MatchAt(s, 1, Sp(<<"DROP", "TABLE">>) \o <<" ">>) THEN "DROP"
  ELSE IF MatchAt(s, 1, Sp(<<"ALTER", "TABLE">>) \o <<" ">>) THEN "ALTER"
  ELSE "OTHER"

ExecStatement(database, s) ==
  LET kind == StatementKind(s)
  IN  CASE kind = "CREATE" -> ExecCreate(database, s)
        [] kind = "INSERT" -> ExecInsert(database, s)
        [] kind = "DROP" -> ExecDrop(database, s)
        [] kind = "ALTER" -> ExecRename(database, s)
        [] OTHER -> Failed(database)

(***************************************************************************)
(* The inputs of the generator calls.                                      *)
(***************************************************************************)
StringAttribute(sql) ==
  [isObject |-> FALSE, sql |-> sql, type |-> <<>>, allowNull |-> TRUE,
   defaultSchemable |-> FALSE, defaultLiteral |-> <<>>, unique |-> FALSE,
   primaryKey |-> FALSE, autoIncrement |-> FALSE, referencesModel |-> <<>>,
   referencesKey |-> <<>>, onDelete |-> "", onUpdate |-> "", field |-> <<>>]

ObjectAttribute(type) == [StringAttribute(<<>>) EXCEPT !.isObject = TRUE, !.type = type]

IntegerKeyAuto == StringAttribute(Sp(<<"INTEGER", "PRIMARY", "KEY", "AUTOINCREMENT">>))
IntegerNotNullKey ==
  [ObjectAttribute(<<"INTEGER">>) EXCEPT !.allowNull = FALSE, !.primaryKey = TRUE]
TextNotNull == [ObjectAttribute(<<"TEXT">>) EXCEPT !.allowNull = FALSE]
TextKey == [ObjectAttribute(<<"TEXT">>) EXCEPT !.primaryKey = TRUE]
KeyReference ==
  [ObjectAttribute(<<"BIGINT">>) EXCEPT !.primaryKey = TRUE, !.referencesModel = <<"u">>,
                                        !.onDelete = "cascade"]
BooleanDefault == StringAttribute(Sp(<<"TINYINT", "DEFAULT", "true">>))
NumberDefault ==
  [ObjectAttribute(<<"INTEGER">>) EXCEPT !.defaultSchemable = TRUE, !.defaultLiteral = <<"0">>,
                                         !.unique = TRUE]

ColumnNames == {<<"id">>, <<"name">>, <<"age">>, <<"nick">>}

\* The names a rename may give: one the original has, one it has not.
NewNames == {<<"id">>, <<"nick">>}

\* The descriptions a recreation call may give for a column.
AttributeChoices(name) ==
  CASE name = <<"id">> -> {IntegerKeyAuto, IntegerNotNullKey}
    [] name = <<"name">> -> {TextNotNull, TextKey}
    [] name = <<"age">> -> {NumberDefault, KeyReference}
    [] OTHER -> {TextKey, BooleanDefault}

\* The SQL definition attributesToSQL writes for description v.
SqlOf(v) == attributesToSQL(<<[key |-> <<"x">>, value |-> v]>>)[1].value

\* The definitions a createTableQuery call may give for a column.
SqlDefinitions(name) ==
  CASE name = <<"id">> -> {SqlOf(IntegerKeyAuto), SqlOf(IntegerNotNullKey), SqlOf(TextNotNull)}
    [] name = <<"name">> -> {SqlOf(TextNotNull), SqlOf(TextKey), SqlOf(BooleanDefault)}
    [] name = <<"age">> -> {SqlOf(KeyReference), SqlOf(TextKey), SqlOf(TextNotNull)}
    [] OTHER -> {SqlOf(TextKey), SqlOf(BooleanDefault), SqlOf(IntegerNotNullKey)}

DistinctKeys(obj) == \A i, j \in 1..Len(obj) : i # j => obj[i].key # obj[j].key

\* Attribute maps of at most MaxAttrs entries, given to the recreation calls.
AttributeMaps ==
  {m \in UNION {[1..k -> [key : ColumnNames,
                          value : UNION {AttributeChoices(n) : n \in ColumnNames}]] :
                  k \in 1..MaxAttrs} :
     DistinctKeys(m) /\ \A i \in 1..Len(m) : m[i].value \in AttributeChoices(m[i].key)}

\* Attribute maps of at most MaxAttrs entries, given to createTableQuery.
SqlAttributeMaps ==
  {m \in UNION {[1..k -> [key : ColumnNames,
                          value : UNION {SqlDefinitions(n) : n \in ColumnNames}]] :
                  k \in 0..MaxAttrs} :
     DistinctKeys(m) /\ \A i \in 1..Len(m) : m[i].value \in SqlDefinitions(m[i].key)}

OriginalTable ==
  [name |-> <<"t">>, cols |-> <<<<"id">>, <<"name">>, <<"age">>>>,
   rows |-> <<<<1, 2, 3>>, <<4, 5, 6>>>>]

\* The ways the stored CREATE TABLE text may write the name of table t: between
\* backticks, between double quotes, or bare.
StoredNames == {AddTicks(<<"t">>, Tick), AddTicks(<<"t">>, DoubleQuote), <<"t">>}

\* The createTableSql the caller of _alterConstraintQuery passes: the CREATE TABLE text
\* the database keeps for the table, whose columns are the described attributes in
\* their order, with a semicolon appended.
StoredCreateSql(storedName, attributes) ==
  CatAll(<<CreateTablePrefix(storedName), <<" ", "(">>,
           Join([i \in 1..Len(attributes) |->
                   CatAll(<<quoteIdentifier(attributes[i].key), <<" ">>,
                            attributes[i].value>>)],
                <<",", " ">>),
           <<")", ";">>>>)

(***************************************************************************)
(* _checkValidJsonStatement.  Here a text is the sequence of its           *)
(* characters, and the two regular expressions are computed character by   *)
(* character.                                                              *)
(***************************************************************************)
MaxFragments == 3

LowerLetters ==
  <<"a", "b", "c", "d", "e", "f", "g", "h", "i", "j", "k", "l", "m",
    "n", "o", "p", "q", "r", "s", "t", "u", "v", "w", "x", "y", "z">>
UpperLetters ==
  <<"A", "B", "C", "D", "E", "F", "G", "H", "I", "J", "K", "L", "M",
    "N", "O", "P", "Q", "R", "S", "T", "U", "V", "W", "X", "Y", "Z">>
Digits == {"0", "1", "2", "3", "4", "5", "6", "7", "8", "9"}
Letters == {LowerLetters[i] : i \in 1..26} \cup {UpperLetters[i] : i \in 1..26}

\* \s, \w, the characters the dot refuses, the quote characters, [()+,.;-]
WhitespaceChars == {" ", "\t", "\n", "\r"}
WordChars == Letters \cup Digits \cup {"_"}
LineTerminators == {"\n", "\r"}
QuoteChars == {DoubleQuote, SingleQuote, Tick}
PunctuationChars == {"(", ")", "+", ",", ".", ";", "-"}

\* The i flag: letters compare without regard to case.
FoldCase(c) ==
  IF \E i \in 1..26 : UpperLetters[i] = c
  THEN LowerLetters[CHOOSE i \in 1..26 : UpperLetters[i] = c]
  ELSE c

\* The first position from i on whose character is not in C: where C* stops.
SkipWhile(s, i, C) == SetMin({j \in i..(Len(s) + 1) : j > Len(s) \/ s[j] \notin C})

\* (?:_[a-z]+) at position i: the position after it, 0 when it does not match.
NameGroupEnd(s, i) ==
  IF i >= 1 /\ i + 1 <= Len(s) /\ s[i] = "_" /\ s[i + 1] \in Letters
  THEN SkipWhile(s, i + 1, Letters)
  ELSE 0

\* A function match that reports the start of the match, not the parenthesis.
JsonFunctionParenAtStart(s, i) ==
  LET start == SkipWhile(s, i, WhitespaceChars)
      named == /\ start + 3 <= Len(s)
               /\ [k \in 1..4 |-> FoldCase(s[start + k - 1])] = <<"j", "s", "o", "n">>
      none == start + 4
      one == NameGroupEnd(s, none)
      two == IF one = 0 THEN 0 ELSE NameGroupEnd(s, one)
      ends == {e \in {none, one, two} :
                 /\ e # 0
                 /\ e <= Len(s)
                 /\ s[e] = "("
                 /\ \E j \in (e + 1)..Len(s) : s[j] = ")"}
  IN  IF named /\ ends # {} THEN i ELSE 0

\* jsonFunctionRegex on the text from position i on: the position in s of the
\* parenthesis that follows the function name, 0 when the expression does not match.
JsonFunctionParen(s, i) ==
  LET start == SkipWhile(s, i, WhitespaceChars)
      named == /\ start + 3 <= Len(s)
               /\ [k \in 1..4 |-> FoldCase(s[start + k - 1])] = <<"j", "s", "o", "n">>
      none == start + 4
      one == NameGroupEnd(s, none)
      two == IF one = 0 THEN 0 ELSE NameGroupEnd(s, one)
      ends == {e \in {none, one, two} :
                 /\ e # 0
                 /\ e <= Len(s)
                 /\ s[e] = "("
                 /\ \E j \in (e + 1)..Len(s) : s[j] = ")"}
  IN  IF named /\ ends # {} THEN SetMin(ends) ELSE 0

\* The quoted alternative: i is the position after the opening quote q; the
\* position of the closing quote, 0 when there is none.  A doubled quote goes on
\* when a closing quote follows it later, and closes at its first quote otherwise.
RECURSIVE QuotedEnd(_, _, _)
QuotedEnd(s, i, q) ==
  IF i > Len(s) THEN 0
  ELSE IF s[i] = q
       THEN IF i + 1 <= Len(s) /\ s[i + 1] = q
            THEN LET later == QuotedEnd(s, i + 2, q)
                 IN  IF later # 0 THEN later ELSE i
            ELSE i
       ELSE IF s[i] \in LineTerminators THEN 0
       ELSE QuotedEnd(s, i + 1, q)

NoToken == [matched |-> FALSE, capturedToken |-> <<>>, length |-> 0]

\* tokenCaptureRegex on the text from position i on: the captured token and the
\* length of the whole match.
TokenCapture(s, i) ==
  LET at == SkipWhile(s, i, WhitespaceChars)
      quoted == IF at <= Len(s) /\ s[at] \in QuoteChars THEN QuotedEnd(s, at + 1, s[at]) ELSE 0
      run == SkipWhile(s, at, WhitespaceChars \cup WordChars)
  IN  IF quoted # 0
      THEN [matched |-> TRUE, capturedToken |-> SubSeq(s, at, quoted),
            length |-> quoted + 1 - i]
      ELSE IF at <= Len(s) /\ s[at] \in WordChars
      THEN [matched |-> TRUE, capturedToken |-> SubSeq(s, at, run - 1), length |-> run - i]
      ELSE IF at <= Len(s) /\ s[at] \in PunctuationChars
      THEN [matched |-> TRUE, capturedToken |-> <<s[at]>>, length |-> at + 1 - i]
      ELSE IF at > i
      THEN [matched |-> TRUE, capturedToken |-> <<s[at - 1]>>, length |-> at - i]
      ELSE NoToken

\* The check after the loop without the comparison of the two counts.
JsonVerdictTokenOnly(hasFunction, invalidToken, opening, closing) ==
  IF hasFunction /\ invalidToken THEN "throw"
  ELSE IF hasFunction THEN "true" ELSE "false"

\* The check after the loop: what the call does, given what the scan has found.
JsonVerdict(hasFunction, invalidToken, opening, closing) ==
  IF hasFunction /\ (invalidToken \/ opening # closing) THEN "throw"
  ELSE IF hasFunction THEN "true" ELSE "false"

\* The concatenation of a sequence of character sequences.
RECURSIVE CatChars(_)
CatChars(pieces) == IF pieces = <<>> THEN <<>> ELSE Head(pieces) \o CatChars(Tail(pieces))

\* The pieces the checked texts are made of.
Fragments ==
  {<<"j", "s", "o", "n", "_", "e", "x", "t", "r", "a", "c", "t", "(", "a", ")">>,
   <<"J", "S", "O", "N", "_", "a", "r", "r", "a", "y", "(">>,
   <<")">>,
   <<"(">>,
   <<";">>,
   <<SingleQuote, "a", ";", SingleQuote>>,
   <<"=">>,
   <<" ", "b">>,
   <<SingleQuote>>}

\* json_extract(col,'$.a'); DROP TABLE users;
InjectionExample ==
  <<"j", "s", "o", "n", "_", "e", "x", "t", "r", "a", "c", "t", "(", "c", "o", "l", ",", SingleQuote, "$", ".", "a", SingleQuote, ")", ";">>
    \o <<" ", "D", "R", "O", "P", " ", "T", "A", "B", "L", "E", " ", "u", "s", "e", "r", "s", ";">>

StringValue(text) == [typeof |-> "string", value |-> text]

\* The strings given to _checkValidJsonStatement: the example, and the texts of at
\* most MaxFragments pieces.
JsonStrings ==
  {StringValue(InjectionExample)}
    \cup {StringValue(CatChars(pieces)) :
            pieces \in UNION {[1..k -> Fragments] : k \in 1..MaxFragments}}

\* The arguments that are not strings.
NonStrings == {[typeof |-> t, value |-> <<>>] : t \in {"number", "object", "undefined"}}

(***************************************************************************)
(* The state: the last generator call (op, args), the text it returned     *)
(* (sql), the database, and the run of the returned statements against it  *)
(* (pc, ip: the statement to run next); and a call of                      *)
(* _checkValidJsonStatement: its argument stmt, its locals, the place it   *)
(* has reached (scan) and what it did in the end (outcome).  For the       *)
(* calls that return one text, sql is that text, or the message of the     *)
(* error when the call threw (pc); bind is the bind mapping updateQuery    *)
(* returns with its text, and objects the mapping objects created so far.  *)
(* heap holds the objects the caller passed to the call, as they are after *)
(* the call (args holds them as they were passed).                         *)
(***************************************************************************)
VARIABLES op, args, sql, stmts, pc, ip, db, bind, objects, heap,
          stmt, currentIndex, openingBrackets, closingBrackets, hasJsonFunction,
          hasInvalidToken, scan, outcome
VARIABLES config, connection, sessionTimezone, error, thrown, connectPc

runVars == <<op, args, sql, stmts, pc, ip, db, bind, objects, heap>>
scanVars == <<stmt, currentIndex, openingBrackets, closingBrackets, hasJsonFunction,
              hasInvalidToken, scan, outcome>>
connectVars == <<config, connection, sessionTimezone, error, thrown, connectPc>>
vars == <<runVars, scanVars, connectVars>>

NoArgs ==
  [tableName |-> <<>>, attributes |-> <<>>, attrNameBefore |-> <<>>,
   attrNameAfter |-> <<>>, createTableSql |-> <<>>]

\* No bind mapping: what a call that returns only text leaves in bind.
NoBind == [present |-> FALSE, id |-> 0, entries |-> <<>>]

\* No generator call yet.
RunInit ==
  /\ op = "none"
  /\ args = NoArgs
  /\ sql = <<>>
  /\ stmts = <<>>
  /\ pc = "idle"
  /\ ip = 0
  /\ db = {OriginalTable}
  /\ bind = NoBind
  /\ objects = {}
  /\ heap = NoArgs

\* _checkValidJsonStatement entered with argument v.
ScanInit(v) ==
  /\ stmt = v
  /\ currentIndex = 0
  /\ openingBrackets = 0
  /\ closingBrackets = 0
  /\ hasJsonFunction = FALSE
  /\ hasInvalidToken = FALSE
  /\ scan = "entry"
  /\ outcome = "none"

\* What error holds when nothing was caught.
NoError == [caught |-> FALSE, code |-> "", message |-> ""]

\* No call of connect yet.
ConnectInit ==
  /\ config = [keepDefaultTimezone |-> FALSE, timezone |-> <<>>]
  /\ connection = "none"
  /\ sessionTimezone = <<>>
  /\ error = NoError
  /\ thrown = ""
  /\ connectPc = "idle"

Init == RunInit /\ ScanInit(StringValue(<<>>)) /\ ConnectInit

Returned(name, arguments, text) ==
  /\ op' = name
  /\ args' = arguments
  /\ sql' = text
  /\ stmts' = SplitStatements(sql')
  /\ pc' = "run"
  /\ ip' = 1
  /\ heap' = arguments
  /\ UNCHANGED <<db, bind, objects, scanVars, connectVars>>

CreateTableCall ==
  /\ pc = "idle"
  /\ \E tableName \in {<<"t">>, <<"u">>}, attributes \in SqlAttributeMaps :
       Returned("createTableQuery",
                [NoArgs EXCEPT !.tableName = tableName, !.attributes = attributes],
                createTableQuery(tableName, attributes))

RemoveColumnCall ==
  /\ pc = "idle"
  /\ \E attributes \in AttributeMaps :
       Returned("removeColumnQuery",
                [NoArgs EXCEPT !.tableName = <<"t">>, !.attributes = attributes],
                removeColumnQuery(<<"t">>, attributes))

AlterConstraintCall ==
  /\ pc = "idle"
  /\ \E attributes \in AttributeMaps, storedName \in StoredNames :
       LET createTableSql == StoredCreateSql(storedName, attributesToSQL(attributes))
       IN  Returned("_alterConstraintQuery",
                    [NoArgs EXCEPT !.tableName = <<"t">>, !.attributes = attributes,
                                   !.createTableSql = createTableSql],
                    _alterConstraintQuery(<<"t">>, attributes, createTableSql))

RenameColumnCall ==
  /\ pc = "idle"
  /\ \E attributes \in AttributeMaps, before \in ColumnNames, after \in NewNames :
       Returned("renameColumnQuery",
                [NoArgs EXCEPT !.tableName = <<"t">>, !.attributes = attributes,
                               !.attrNameBefore = before, !.attrNameAfter = after],
                renameColumnQuery(<<"t">>, before, after, attributes))

\* The next statement runs and succeeds.
ExecuteStatement ==
  /\ pc = "run"
  /\ ip <= Len(stmts)
  /\ LET result == ExecStatement(db, stmts[ip])
     IN  /\ result.ok
         /\ db' = result.db
  /\ ip' = ip + 1
  /\ pc' = IF ip = Len(stmts) THEN "done" ELSE "run"
  /\ UNCHANGED <<op, args, sql, stmts, bind, objects, heap, scanVars, connectVars>>

\* The next statement fails: the run ends, the database is as it was.
StatementFails ==
  /\ pc = "run"
  /\ ip <= Len(stmts)
  /\ ~ExecStatement(db, stmts[ip]).ok
  /\ pc' = "failed"
  /\ UNCHANGED <<op, args, sql, stmts, ip, db, bind, objects, heap, scanVars, connectVars>>

\* The table-recreation calls and the run of their statements.
Next ==
  \/ RemoveColumnCall
  \/ AlterConstraintCall
  \/ RenameColumnCall
  \/ ExecuteStatement
  \/ StatementFails

Spec == Init /\ [][Next]_vars

\* The createTableQuery calls and the run of their statement.
NextCreateTable ==
  \/ CreateTableCall
  \/ ExecuteStatement
  \/ StatementFails

SpecCreateTable == Init /\ [][NextCreateTable]_vars

(***************************************************************************)
(* The steps of _checkValidJsonStatement.                                  *)
(***************************************************************************)
\* typeof stmt !== 'string': return false
NotAString ==
  /\ scan = "entry"
  /\ stmt.typeof # "string"
  /\ scan' = "returned"
  /\ outcome' = "false"
  /\ UNCHANGED <<stmt, currentIndex, openingBrackets, closingBrackets, hasJsonFunction,
                 hasInvalidToken, runVars, connectVars>>

EnterLoop ==
  /\ scan = "entry"
  /\ stmt.typeof = "string"
  /\ scan' = "loop"
  /\ UNCHANGED <<stmt, currentIndex, openingBrackets, closingBrackets, hasJsonFunction,
                 hasInvalidToken, outcome, runVars, connectVars>>

InLoop == scan = "loop" /\ currentIndex < Len(stmt.value)

\* jsonFunctionRegex matches: go to the parenthesis after the function name.
FunctionMatch ==
  /\ InLoop
  /\ JsonFunctionParen(stmt.value, currentIndex + 1) # 0
  /\ currentIndex' = JsonFunctionParen(stmt.value, currentIndex + 1) - 1
  /\ hasJsonFunction' = TRUE
  /\ UNCHANGED <<stmt, openingBrackets, closingBrackets, hasInvalidToken, scan, outcome,
                 runVars, connectVars>>

\* tokenCaptureRegex matches a token that is not a semicolon: count it and go on.
TokenMatch ==
  /\ InLoop
  /\ JsonFunctionParen(stmt.value, currentIndex + 1) = 0
  /\ LET tokenMatches == TokenCapture(stmt.value, currentIndex + 1)
     IN  /\ tokenMatches.matched
         /\ tokenMatches.capturedToken # <<";">>
         /\ openingBrackets' = openingBrackets + (IF tokenMatches.capturedToken = <<"(">>
                                                  THEN 1 ELSE 0)
         /\ closingBrackets' = closingBrackets + (IF tokenMatches.capturedToken = <<")">>
                                                  THEN 1 ELSE 0)
         /\ currentIndex' = currentIndex + tokenMatches.length
  /\ UNCHANGED <<stmt, hasJsonFunction, hasInvalidToken, scan, outcome, runVars, connectVars>>

\* The captured token is a semicolon: hasInvalidToken = true; break
SemicolonToken ==
  /\ InLoop
  /\ JsonFunctionParen(stmt.value, currentIndex + 1) = 0
  /\ TokenCapture(stmt.value, currentIndex + 1).matched
  /\ TokenCapture(stmt.value, currentIndex + 1).capturedToken = <<";">>
  /\ hasInvalidToken' = TRUE
  /\ scan' = "check"
  /\ UNCHANGED <<stmt, currentIndex, openingBrackets, closingBrackets, hasJsonFunction,
                 outcome, runVars, connectVars>>

\* Neither expression matches: break
NoMatch ==
  /\ InLoop
  /\ JsonFunctionParen(stmt.value, currentIndex + 1) = 0
  /\ ~TokenCapture(stmt.value, currentIndex + 1).matched
  /\ scan' = "check"
  /\ UNCHANGED <<stmt, currentIndex, openingBrackets, closingBrackets, hasJsonFunction,
                 hasInvalidToken, outcome, runVars, connectVars>>

\* The loop condition fails: the whole text was scanned.
EndOfText ==
  /\ scan = "loop"
  /\ currentIndex >= Len(stmt.value)
  /\ scan' = "check"
  /\ UNCHANGED <<stmt, currentIndex, openingBrackets, closingBrackets, hasJsonFunction,
                 hasInvalidToken, outcome, runVars, connectVars>>

\* The check after the loop: throw, or return hasJsonFunction.
CheckAndReturn ==
  /\ scan = "check"
  /\ hasInvalidToken' = (hasInvalidToken \/ openingBrackets # closingBrackets)
  /\ outcome' = JsonVerdict(hasJsonFunction, hasInvalidToken, openingBrackets,
                            closingBrackets)
  /\ scan' = "returned"
  /\ UNCHANGED <<stmt, currentIndex, openingBrackets, closingBrackets, hasJsonFunction,
                 runVars, connectVars>>

InitJson == RunInit /\ ConnectInit /\ \E v \in JsonStrings \cup NonStrings : ScanInit(v)

NextJson ==
  \/ NotAString
  \/ EnterLoop
  \/ FunctionMatch
  \/ TokenMatch
  \/ SemicolonToken
  \/ NoMatch
  \/ EndOfText
  \/ CheckAndReturn

SpecJson == InitJson /\ [][NextJson]_vars

(***************************************************************************)
(* Reading the emitted statements: what the claims below say about them.   *)
(***************************************************************************)
\* The name a CREATE TABLE statement creates.
CreatedName(s) ==
  LET create == Sp(<<"CREATE", "TABLE">>) \o <<" ">>
      ifNotExists == Sp(<<"IF", "NOT", "EXISTS">>) \o <<" ">>
  IN  ParseName(s, Len(create) + 1
                   + (IF MatchAt(s, Len(create) + 1, ifNotExists) THEN Len(ifNotExists) ELSE 0))

\* The entries between the parentheses of a CREATE TABLE statement.
CreateItems(s) ==
  LET n == CreatedName(s)
      items == SplitTop(SubSeq(s, n.next + 2, Len(s) - 1))
  IN  [i \in 1..Len(items) |-> TrimLeft(items[i])]

IsConstraintItem(item) == item # <<>> /\ item[1] = "PRIMARY"
ColumnItems(s) == SelectSeq(CreateItems(s), LAMBDA item : ~IsConstraintItem(item))
ConstraintItems(s) == SelectSeq(CreateItems(s), IsConstraintItem)
CreateColumns(s) == [i \in 1..Len(ColumnItems(s)) |-> ParseName(ColumnItems(s)[i], 1).name]

\* The definition of a column entry: what follows its name and a blank.
DefinitionOf(item) == SubSeq(item, ParseName(item, 1).next + 1, Len(item))

InsertTarget(s) == ParseName(s, Len(Sp(<<"INSERT", "INTO">>)) + 2)
InsertSource(s) == ParseName(s, IndexOf(s, <<" ", "FROM", " ">>) + 3)

\* The select list of an INSERT ... SELECT statement.
SelectItems(s) ==
  LET from == InsertTarget(s).next + 3
      listed == SplitTop(SubSeq(s, from, IndexOf(s, <<" ", "FROM", " ">>) - 1))
  IN  [i \in 1..Len(listed) |-> ParseSelectItem(TrimLeft(listed[i]))]

\* What a statement does to which table.
Shape(s) ==
  LET kind == StatementKind(s)
      first == ParseName(s, Len(Sp(<<"ALTER", "TABLE">>)) + 2)
  IN  CASE kind = "CREATE" -> [kind |-> kind, table |-> CreatedName(s).name, other |-> <<>>]
        [] kind = "INSERT" -> [kind |-> kind, table |-> InsertTarget(s).name,
                               other |-> InsertSource(s).name]
        [] kind = "DROP" -> [kind |-> kind, table |-> ParseName(s, 5).name, other |-> <<>>]
        [] kind = "ALTER" -> [kind |-> kind, table |-> first.name,
                              other |-> ParseName(s, first.next + 5).name]
        [] OTHER -> [kind |-> kind, table |-> <<>>, other |-> <<>>]

Shapes == [i \in 1..Len(stmts) |-> Shape(stmts[i])]

Recreations == {"removeColumnQuery", "_alterConstraintQuery", "renameColumnQuery"}

\* The attribute map a recreation call works on, after attributesToSQL.
SqlAttributes == attributesToSQL(args.attributes)

\* CREATE backup, INSERT INTO backup ... FROM original, DROP original,
\* ALTER TABLE backup RENAME TO original.
FourStatements(original) ==
  LET backup == BackupTableName(original)
  IN  <<[kind |-> "CREATE", table |-> backup, other |-> <<>>],
        [kind |-> "INSERT", table |-> backup, other |-> original],
        [kind |-> "DROP", table |-> original, other |-> <<>>],
        [kind |-> "ALTER", table |-> backup, other |-> original]>>

\* CREATE backup, INSERT INTO backup ... FROM original, DROP original,
\* CREATE original, INSERT INTO original ... FROM backup, DROP backup.
SixStatements(original) ==
  LET backup == BackupTableName(original)
  IN  <<[kind |-> "CREATE", table |-> backup, other |-> <<>>],
        [kind |-> "INSERT", table |-> backup, other |-> original],
        [kind |-> "DROP", table |-> original, other |-> <<>>],
        [kind |-> "CREATE", table |-> original, other |-> <<>>],
        [kind |-> "INSERT", table |-> original, other |-> backup],
        [kind |-> "DROP", table |-> backup, other |-> <<>>]>>

\* The createTableSql of the call names the table between backticks or double quotes.
StoredNameQuoted ==
  \/ MatchAt(args.createTableSql, 1, CreateTablePrefix(quoteTable(args.tableName)))
  \/ MatchAt(args.createTableSql, 1,
             CreateTablePrefix(TicksToDoubleQuotes(quoteTable(args.tableName))))

(***************************************************************************)
(* C1 as amended: removeColumnQuery emits exactly four statements: CREATE   *)
(* TABLE backup, INSERT INTO backup SELECT ... FROM original, DROP TABLE   *)
(* original, ALTER TABLE backup RENAME TO original.  _alterConstraintQuery *)
(* emits exactly four as well: the createTableSql it was given, then the   *)
(* same INSERT, DROP and ALTER; its first statement creates the backup     *)
(* table exactly when createTableSql names the original between backticks  *)
(* or double quotes.  renameColumnQuery emits exactly six and no ALTER     *)
(* TABLE: CREATE backup, INSERT INTO backup ... FROM original, DROP        *)
(* original, CREATE original, INSERT INTO original ... FROM backup, DROP   *)
(* backup.                                                                 *)
(***************************************************************************)
C1_RecreationStatements ==
  pc # "idle" =>
    /\ op = "removeColumnQuery" => Shapes = FourStatements(args.tableName)
    /\ op = "_alterConstraintQuery"
         => /\ Len(Shapes) = 4
            /\ Shapes[1].kind = "CREATE"
            /\ Shapes[1].table = BackupTableName(args.tableName) <=> StoredNameQuoted
            /\ StoredNameQuoted => Shapes = FourStatements(args.tableName)
            /\ \A i \in 2..4 : Shapes[i] = FourStatements(args.tableName)[i]
    /\ op = "renameColumnQuery" => Shapes = SixStatements(args.tableName)

\* C1 as stated: each of the three recreation operations emits exactly the four
\* statements CREATE backup, INSERT INTO backup ... FROM original, DROP original,
\* ALTER TABLE backup RENAME TO original.
C1_Original ==
  (pc # "idle" /\ op \in Recreations) => Shapes = FourStatements(args.tableName)

C1_Witness ==
  /\ pc = "done"
  /\ op = "renameColumnQuery"
  /\ Len(stmts) = 6
  /\ args.attrNameAfter \in {SqlAttributes[i].key : i \in 1..Len(SqlAttributes)}

(***************************************************************************)
(* C2: when the statements of a recreation call run one at a time against  *)
(* a database that holds the original table and no backup table, then      *)
(* after every prefix of the run, a stop on a failing statement included,  *)
(* some table holds every original row's values for the surviving columns. *)
(***************************************************************************)
\* The original column whose values the column named key receives.
SourceOf(key) ==
  IF op = "renameColumnQuery" /\ key = args.attrNameAfter THEN args.attrNameBefore ELSE key

\* The described columns that take their values from a column of the original.
Survivors ==
  {i \in 1..Len(SqlAttributes) : IsIn(OriginalTable.cols, SourceOf(SqlAttributes[i].key))}

\* table has the original rows' values of every surviving column, under the
\* column's old name or its new one.
HoldsOriginalRows(table) ==
  /\ Len(table.rows) = Len(OriginalTable.rows)
  /\ \A i \in Survivors :
       LET source == SourceOf(SqlAttributes[i].key)
       IN  \E c \in {SqlAttributes[i].key, source} :
             /\ IsIn(table.cols, c)
             /\ \A r \in 1..Len(table.rows) :
                  table.rows[r][Position(table.cols, c)]
                    = OriginalTable.rows[r][Position(OriginalTable.cols, source)]

C2_RowsNeverLost ==
  (op \in Recreations /\ pc \in {"run", "done", "failed"})
    => \E table \in db : HoldsOriginalRows(table)

\* The original is gone and the backup table holds the rows of two surviving columns.
C2_Witness ==
  /\ op \in Recreations
  /\ pc = "run"
  /\ ip = 4
  /\ ~HasTable(db, args.tableName)
  /\ Cardinality(Survivors) = 2
  /\ HasTable(db, BackupTableName(args.tableName))
  /\ HoldsOriginalRows(TableOf(db, BackupTableName(args.tableName)))

(***************************************************************************)
(* C3: for removeColumnQuery the column list of the CREATE TABLE of the    *)
(* backup table and the select list of the INSERT ... SELECT are both      *)
(* exactly the described attributes, in the order of the attribute map; a  *)
(* column of the original that is not described appears in neither.        *)
(***************************************************************************)
SelectColumns(s) == [i \in 1..Len(SelectItems(s)) |-> SelectItems(s)[i].column]
SelectAliases(s) == [i \in 1..Len(SelectItems(s)) |-> SelectItems(s)[i].alias]

\* The columns of the original that the described attribute set leaves out.
RemovedColumns ==
  {c \in {OriginalTable.cols[i] : i \in 1..Len(OriginalTable.cols)} :
     ~IsIn(Keys(SqlAttributes), c)}

C3_RemoveColumnLists ==
  (op = "removeColumnQuery" /\ pc # "idle") =>
    /\ CreateColumns(stmts[1]) = Keys(SqlAttributes)
    /\ SelectColumns(stmts[2]) = Keys(SqlAttributes)
    /\ \A i \in 1..Len(SqlAttributes) : SelectAliases(stmts[2])[i] = <<>>
    /\ \A c \in RemovedColumns :
         ~IsIn(CreateColumns(stmts[1]), c) /\ ~IsIn(SelectColumns(stmts[2]), c)

\* Column name is removed from the original: id and age survive, in the map's order.
C3_Witness ==
  /\ op = "removeColumnQuery"
  /\ pc = "done"
  /\ Keys(SqlAttributes) = <<<<"age">>, <<"id">>>>
  /\ RemovedColumns = {<<"name">>}
  /\ HasTable(db, args.tableName)
  /\ TableOf(db, args.tableName).cols = <<<<"age">>, <<"id">>>>

(***************************************************************************)
(* C4 as amended: for renameColumnQuery(table, before, after, attributes)  *)
(* where attributes has the key after, the select list of the INSERT that  *)
(* copies out of the original table has the entry before AS after at the   *)
(* position of after and every other attribute under its own name; the old *)
(* column name names no other column of the sequence exactly when before   *)
(* is not itself a key of attributes.                                      *)
(***************************************************************************)
\* The names a table constraint lists between its parentheses.
ConstraintNames(item) ==
  LET listed == SplitTop(SubSeq(item, IndexOf(item, <<"(">>) + 1, Len(item) - 1))
  IN  [i \in 1..Len(listed) |-> ParseName(TrimLeft(listed[i]), 1).name]

Range(seq) == {seq[i] : i \in 1..Len(seq)}

\* The column names a statement writes: the columns and the key list of a CREATE
\* TABLE, the columns and aliases of a select list.
ColumnNamesIn(s) ==
  CASE StatementKind(s) = "CREATE" ->
         Range(CreateColumns(s))
           \cup UNION {Range(ConstraintNames(c)) : c \in Range(ConstraintItems(s))}
    [] StatementKind(s) = "INSERT" ->
         (Range(SelectColumns(s)) \cup Range(SelectAliases(s))) \ {<<>>}
    [] OTHER -> {}

\* The import list is the attributes in order, before AS after in the place of after.
ImportListAliases ==
  LET keys == Keys(SqlAttributes)
      items == SelectItems(stmts[2])
  IN  /\ Len(items) = Len(keys)
      /\ \A i \in 1..Len(keys) :
           items[i] = IF keys[i] = args.attrNameAfter
                      THEN [ok |-> TRUE, column |-> args.attrNameBefore,
                            alias |-> args.attrNameAfter]
                      ELSE [ok |-> TRUE, column |-> keys[i], alias |-> <<>>]

\* The old name is written somewhere besides the aliased entry of the import list.
OldNameElsewhere ==
  LET keys == Keys(SqlAttributes)
      items == SelectItems(stmts[2])
  IN  \/ \E k \in (1..Len(stmts)) \ {2} : args.attrNameBefore \in ColumnNamesIn(stmts[k])
      \/ \E i \in 1..Len(items) :
           /\ keys[i] # args.attrNameAfter
           /\ args.attrNameBefore \in {items[i].column, items[i].alias}
      \/ \E i \in 1..Len(items) :
           /\ keys[i] = args.attrNameAfter
           /\ items[i].alias = args.attrNameBefore

RenameToKey ==
  /\ op = "renameColumnQuery"
  /\ pc # "idle"
  /\ IsIn(Keys(SqlAttributes), args.attrNameAfter)

C4_RenameAliases ==
  RenameToKey =>
    /\ ImportListAliases
    /\ OldNameElsewhere <=> IsIn(Keys(SqlAttributes), args.attrNameBefore)

\* C4 as stated: with after a key of attributes, the import list has before AS after
\* at the position of after, every other attribute under its own name, and the old
\* column name appears nowhere else in the sequence.
C4_Original == RenameToKey => (ImportListAliases /\ ~OldNameElsewhere)

\* Column name of the original has become column nick, with its values.
C4_Witness ==
  /\ RenameToKey
  /\ pc = "done"
  /\ args.attrNameBefore = <<"name">>
  /\ args.attrNameAfter = <<"nick">>
  /\ Keys(SqlAttributes) = <<<<"id">>, <<"nick">>, <<"age">>>>
  /\ ~OldNameElsewhere
  /\ TableOf(db, args.tableName).cols = Keys(SqlAttributes)
  /\ TableOf(db, args.tableName).rows = OriginalTable.rows

(***************************************************************************)
(* C5: when N >= 2 definitions of the attribute map contain PRIMARY KEY,   *)
(* createTableQuery writes exactly one table constraint PRIMARY KEY (...), *)
(* last in the statement, listing the N quoted names in declaration order, *)
(* and no column definition keeps PRIMARY KEY; when fewer than 2 do, it    *)
(* writes no table constraint and a column that had the marker keeps it.   *)
(***************************************************************************)
CreateTableReturned == op = "createTableQuery" /\ pc # "idle"

\* The places of the definitions that carry the PRIMARY KEY marker.
KeyPlaces == {i \in 1..Len(args.attributes) : Includes(args.attributes[i].value, PRIMARY_KEY)}

\* The names at the places of P, in declaration order, each between backticks.
TickedNames(P) ==
  Join([k \in 1..Cardinality(P) |-> <<Tick>> \o args.attributes[Kth(P, k)].key \o <<Tick>>],
       <<",", " ">>)

C5_PrimaryKeyConsolidation ==
  CreateTableReturned =>
    LET s == stmts[1]
    IN  /\ Len(ColumnItems(s)) = Len(args.attributes)
        /\ Cardinality(KeyPlaces) >= 2 =>
             /\ ConstraintItems(s)
                  = <<CatAll(<<PRIMARY_KEY, <<" ", "(">>, TickedNames(KeyPlaces), <<")">>>>)>>
             /\ CreateItems(s)[Len(CreateItems(s))] = ConstraintItems(s)[1]
             /\ \A i \in 1..Len(ColumnItems(s)) : ~Includes(ColumnItems(s)[i], PRIMARY_KEY)
        /\ Cardinality(KeyPlaces) < 2 =>
             /\ ConstraintItems(s) = <<>>
             /\ \A i \in 1..Len(ColumnItems(s)) :
                  Includes(ColumnItems(s)[i], PRIMARY_KEY) <=> i \in KeyPlaces

\* Three keys out of three columns, and the table they create.
C5_Witness ==
  /\ CreateTableReturned
  /\ pc = "done"
  /\ Cardinality(KeyPlaces) = 3
  /\ Keys(args.attributes) = <<<<"name">>, <<"id">>, <<"age">>>>
  /\ ConstraintNames(ConstraintItems(stmts[1])[1]) = Keys(args.attributes)
  /\ HasTable(db, <<"u">>)

(***************************************************************************)
(* C6 as amended: with a composite primary key, the marker of a column     *)
(* whose definition already contains NOT NULL is removed outright, with    *)
(* the blank before it, and the marker of a column whose definition does   *)
(* not contain NOT NULL is replaced by NOT NULL.                           *)
(***************************************************************************)
\* s without the n lexemes from position i on.
Without(s, i, n) == SubSeq(s, 1, i - 1) \o SubSeq(s, i + n, Len(s))

\* s with NOT NULL in the place of the marker that starts at position i.
NotNullAt(s, i) == SubSeq(s, 1, i - 1) \o NOT_NULL \o SubSeq(s, i + Len(PRIMARY_KEY), Len(s))

Composite == CreateTableReturned /\ Cardinality(KeyPlaces) >= 2

\* The definition written for the attribute at place i.
Written(i) == DefinitionOf(ColumnItems(stmts[1])[i])

C6_CompositeMarker ==
  Composite =>
    \A i \in KeyPlaces :
      LET dataType == args.attributes[i].value
          marker == IndexOf(dataType, PRIMARY_KEY)
      IN  IF Includes(dataType, NOT_NULL)
          THEN Written(i) = Without(dataType, marker - 1, Len(PRIMARY_KEY) + 1)
          ELSE Written(i) = NotNullAt(dataType, marker)

\* C6 as stated: the marker of a column whose definition already contains NOT NULL
\* is replaced by NOT NULL; the marker of a column whose definition does not is
\* removed outright, and no NOT NULL is added to it.
C6_Original ==
  Composite =>
    \A i \in KeyPlaces :
      LET dataType == args.attributes[i].value
          marker == IndexOf(dataType, PRIMARY_KEY)
      IN  IF Includes(dataType, NOT_NULL)
          THEN Written(i) = NotNullAt(dataType, marker)
          ELSE /\ Written(i) = Without(dataType, marker - 1, Len(PRIMARY_KEY) + 1)
               /\ ~Includes(Written(i), NOT_NULL)

\* One key column with NOT NULL and one without: both are written with one NOT NULL.
C6_Witness ==
  /\ Composite
  /\ Values(args.attributes) = <<Sp(<<"INTEGER", "NOT", "NULL", "PRIMARY", "KEY">>),
                                 Sp(<<"TEXT", "PRIMARY", "KEY">>)>>
  /\ Written(1) = Sp(<<"INTEGER", "NOT", "NULL">>)
  /\ Written(2) = Sp(<<"TEXT", "NOT", "NULL">>)

(***************************************************************************)
(* C7 as amended: createTableQuery for table t with the attributes         *)
(* {id: 'INTEGER PRIMARY KEY AUTOINCREMENT', name: 'TEXT NOT NULL'}        *)
(* returns exactly CREATE TABLE IF NOT EXISTS t (id INTEGER PRIMARY KEY    *)
(* AUTOINCREMENT, name TEXT NOT NULL); with each of t, id and name between *)
(* backticks: columns in declaration order, the single key inline.         *)
(***************************************************************************)
ScenarioCall ==
  /\ CreateTableReturned
  /\ args.tableName = <<"t">>
  /\ args.attributes
       = <<[key |-> <<"id">>, value |-> Sp(<<"INTEGER", "PRIMARY", "KEY", "AUTOINCREMENT">>)],
           [key |-> <<"name">>, value |-> Sp(<<"TEXT", "NOT", "NULL">>)]>>

\* The scenario's text, its identifiers between the quote character q.
ScenarioText(q) ==
  <<"CREATE", " ", "TABLE", " ", "IF", " ", "NOT", " ", "EXISTS", " ", q, "t", q, " ",
    "(", q, "id", q, " ", "INTEGER", " ", "PRIMARY", " ", "KEY", " ", "AUTOINCREMENT",
    ",", " ", q, "name", q, " ", "TEXT", " ", "NOT", " ", "NULL", ")", ";">>

C7_ScenarioBackticks == ScenarioCall => sql = ScenarioText(Tick)

\* C7 as stated: the same text with the identifiers wrapped in double quotes.
C7_Original == ScenarioCall => sql = ScenarioText(DoubleQuote)

C7_Witness == ScenarioCall /\ pc = "done" /\ Len(sql) = Len(ScenarioText(Tick))

(***************************************************************************)
(* C8: createTableQuery called with an empty attribute set returns no SQL  *)
(* text: it never returns a CREATE TABLE statement with an empty column    *)
(* list.                                                                   *)
(***************************************************************************)
C8_EmptyAttributesRejected ==
  (CreateTableReturned /\ args.attributes = <<>>) => sql = <<>>

\* The statement returned for an empty attribute set, which the database refuses.
C8_Witness ==
  /\ CreateTableReturned
  /\ args.attributes = <<>>
  /\ args.tableName = <<"u">>
  /\ sql = <<"CREATE", " ", "TABLE", " ", "IF", " ", "NOT", " ", "EXISTS", " ",
             Tick, "u", Tick, " ", "(", ")", ";">>
  /\ pc = "failed"

(***************************************************************************)
(* C9: _checkValidJsonStatement throws exactly for the strings in which it *)
(* has recognised a JSON function call and either stopped its scan at a    *)
(* bare semicolon or counted unequal numbers of opening and closing        *)
(* parentheses; it throws for json_extract(col,'$.a'); DROP TABLE users;   *)
(* it returns false for an argument that is not a string, and false,       *)
(* without throwing, for a string that has no JSON function call in it.    *)
(***************************************************************************)
\* The scan has stopped in front of a semicolon.
StoppedAtSemicolon ==
  LET at == SkipWhile(stmt.value, currentIndex + 1, WhitespaceChars)
  IN  at <= Len(stmt.value) /\ stmt.value[at] = ";"

\* The word json, in either case, is somewhere in s.
ContainsJson(s) ==
  \E i \in 1..(Len(s) - 3) :
    [k \in 1..4 |-> FoldCase(s[i + k - 1])] = <<"j", "s", "o", "n">>

C9_ThrowsOnInvalidJsonCall ==
  scan = "returned" =>
    /\ stmt.typeof # "string" => outcome = "false"
    /\ stmt.typeof = "string" =>
         /\ outcome = "throw"
              <=> (hasJsonFunction
                     /\ (StoppedAtSemicolon \/ openingBrackets # closingBrackets))
         /\ ~ContainsJson(stmt.value) => outcome = "false"
         /\ ~hasJsonFunction => outcome = "false"
         /\ stmt.value = InjectionExample => outcome = "throw"

\* The example is refused at its first semicolon, after one pair of parentheses.
C9_Witness ==
  /\ scan = "returned"
  /\ stmt = StringValue(InjectionExample)
  /\ outcome = "throw"
  /\ hasJsonFunction
  /\ StoppedAtSemicolon
  /\ currentIndex = 23
  /\ openingBrackets = 1
  /\ closingBrackets = 1

(***************************************************************************)
(* C10: _checkValidJsonStatement never returns true for a string that has  *)
(* a semicolon outside every quoted string.                                *)
(***************************************************************************)
\* The quote that is open after the first i characters of s, "" when none is.
RECURSIVE OpenQuote(_, _)
OpenQuote(s, i) ==
  IF i = 0 THEN ""
  ELSE LET before == OpenQuote(s, i - 1)
       IN  IF before = "" THEN (IF s[i] \in QuoteChars THEN s[i] ELSE "")
           ELSE IF s[i] = before THEN "" ELSE before

HasBareSemicolon(s) == \E i \in 1..Len(s) : s[i] = ";" /\ OpenQuote(s, i - 1) = ""

C10_NoTrueWithBareSemicolon ==
  (scan = "returned" /\ stmt.typeof = "string" /\ HasBareSemicolon(stmt.value))
    => outcome # "true"

\* json_extract(a)=; is accepted: the scan ends without a word at the equals sign.
C10_Witness ==
  /\ scan = "returned"
  /\ stmt = StringValue(<<"j", "s", "o", "n", "_", "e", "x", "t", "r", "a", "c", "t",
                          "(", "a", ")", "=", ";">>)
  /\ currentIndex = 15
  /\ ~StoppedAtSemicolon
  /\ outcome = "true"

(***************************************************************************)
(* The calls that return one text.  A call is made from the idle state and *)
(* either returns its text or throws an error with a message.              *)
(***************************************************************************)
MaxNameLength == 3

Answered(name, arguments, text) ==
  /\ op' = name
  /\ args' = arguments
  /\ sql' = text
  /\ pc' = "returned"
  /\ heap' = arguments
  /\ UNCHANGED <<stmts, ip, db, bind, objects, scanVars, connectVars>>

Thrown(name, arguments, message) ==
  /\ op' = name
  /\ args' = arguments
  /\ sql' = message
  /\ pc' = "threw"
  /\ heap' = arguments
  /\ UNCHANGED <<stmts, ip, db, bind, objects, scanVars, connectVars>>

\* A text in which no two words stand side by side (they would be one word).
IsText(s) == \A i \in 1..(Len(s) - 1) : ~(IsWordLexeme(s[i]) /\ IsWordLexeme(s[i + 1]))

\* The texts of at most n lexemes of the set L.
TextsOver(L, n) == {s \in UNION {[1..k -> L] : k \in 1..n} : IsText(s)}

\* s with every q written twice.
RECURSIVE Doubled(_, _)
Doubled(s, q) ==
  IF s = <<>> THEN <<>>
  ELSE (IF s[1] = q THEN <<q, q>> ELSE <<s[1]>>) \o Doubled(Tail(s), q)

\* The identifiers given to quoteIdentifier: letters and backticks.
Identifiers == TextsOver({"a", "b", Tick}, MaxNameLength)

QuoteIdentifierCall ==
  /\ pc = "idle"
  /\ \E identifier \in Identifiers :
       Answered("quoteIdentifier", [identifier |-> identifier], quoteIdentifier(identifier))

(***************************************************************************)
(* C11: quoteIdentifier wraps the name in backticks and doubles every      *)
(* backtick in it, so that stripping the outer backticks and collapsing    *)
(* the doubled ones recovers the identifier exactly.                       *)
(***************************************************************************)
\* s with every pair of q read as one q.
RECURSIVE Collapsed(_, _)
Collapsed(s, q) ==
  IF s = <<>> THEN <<>>
  ELSE IF Len(s) >= 2 /\ s[1] = q /\ s[2] = q THEN <<q>> \o Collapsed(Tail(Tail(s)), q)
  ELSE <<s[1]>> \o Collapsed(Tail(s), q)

StripOuter(s) == SubSeq(s, 2, Len(s) - 1)

C11_QuoteRoundTrip ==
  (op = "quoteIdentifier" /\ pc = "returned") =>
    /\ sql = <<Tick>> \o Doubled(args.identifier, Tick) \o <<Tick>>
    /\ Collapsed(StripOuter(sql), Tick) = args.identifier

\* The backtick of a`b is dropped: the quoted text is that of ab.
C11_Witness ==
  /\ op = "quoteIdentifier"
  /\ pc = "returned"
  /\ args.identifier = <<"a", Tick, "b">>
  /\ sql = <<Tick, "ab", Tick>>

(***************************************************************************)
(* Table names: a bare name (a string) or an object that carries the name  *)
(* and, when schema-qualified, a schema.                                   *)
(***************************************************************************)
BareName(text) == [typeof |-> "string", value |-> text, schema |-> <<>>]
NameObject(text, schemaName) == [typeof |-> "object", value |-> text, schema |-> schemaName]

IsSchemaQualified(tableName) == tableName.typeof = "object" /\ tableName.schema # <<>>

\* What a call returns: a text, or the error it throws.
Ok(text) == [threw |-> FALSE, text |-> text]
Err(message) == [threw |-> TRUE, text |-> message]

\* The text r between two fixed texts; an error passes through.
Around(before, r, after) == IF r.threw THEN r ELSE Ok(Cat3(before, r.text, after))

DialectName == <<"sqlite">>

\* Schemas are not supported in <dialect name>.
SchemasNotSupported(dialectName) ==
  Cat3(<<"Schemas", " ", "are", " ", "not", " ", "supported", " ", "in", " ">>,
       dialectName, <<".">>)

\* A value in a template literal: a string as it is, an object as
\* [object Object], undefined as the word undefined.
TemplateString(v) ==
  CASE v.typeof = "object" -> <<"[", "object", " ", "Object", "]">>
    [] v.typeof = "undefined" -> <<"undefined">>
    [] OTHER -> v.value

\* quoteTable of a table name: a schema-qualified name is rejected, any other
\* name is quoted as an identifier.
QuoteTableName(tableName) ==
  IF IsSchemaQualified(tableName) THEN Err(SchemasNotSupported(DialectName))
  ELSE Ok(quoteTable(tableName.value))

\* addSchema of the table description built by describeTableQuery.
AddSchemaTo(tableName, schemaName) ==
  IF schemaName = <<>> THEN tableName
  ELSE NameObject(tableName.value, schemaName)

\* addSchema of a table name: the name, with the schema it carries.
addSchema(tableName) == AddSchemaTo(tableName, tableName.schema)

\* escape of a value: a string between single quotes with its single quotes
\* doubled, a number as its digits, a literal (a SequelizeMethod) as its own
\* text; a table object has no literal.
escape(v) ==
  IF v.typeof = "string" THEN Ok(<<SingleQuote>> \o Doubled(v.value, SingleQuote) \o <<SingleQuote>>)
  ELSE IF v.typeof = "number" THEN Ok(v.value)
  ELSE IF v.typeof = "literal" THEN Ok(v.value)
  ELSE Err(<<"Invalid", " ", "value">>)

showIndexesQuery(tableName) ==
  Around(<<"PRAGMA", " ", "INDEX_LIST", "(">>, QuoteTableName(tableName), <<")">>)

showConstraintsQuery(tableName, constraintName) ==
  LET first == Cat3(<<"SELECT", " ", "sql", " ", "FROM", " ", "sqlite_master", " ",
                      "WHERE", " ", "tbl_name", "=", SingleQuote>>,
                    TemplateString(tableName), <<SingleQuote>>)
      withLike == IF constraintName # <<>>
                  THEN Cat(first, Cat3(<<" ", "AND", " ", "sql", " ", "LIKE", " ", SingleQuote, "%">>,
                                       constraintName, <<"%", SingleQuote>>))
                  ELSE first
  IN  Ok(Cat(withLike, <<";">>))

describeTableQuery(tableName, schemaName) ==
  Around(<<"PRAGMA", " ", "TABLE_INFO", "(">>,
         QuoteTableName(AddSchemaTo(tableName, schemaName)), <<")", ";">>)

describeCreateTableQuery(tableName) ==
  Ok(Cat3(<<"SELECT", " ", "sql", " ", "FROM", " ", "sqlite_master", " ",
            "WHERE", " ", "tbl_name", "=", SingleQuote>>,
          TemplateString(tableName), <<SingleQuote, ";">>))

getForeignKeysQuery(tableName) ==
  Around(<<"PRAGMA", " ", "foreign_key_list", "(">>, QuoteTableName(addSchema(tableName)), <<")">>)

tableExistsQuery(tableName) ==
  Around(<<"SELECT", " ", "name", " ", "FROM", " ", "sqlite_master", " ", "WHERE", " ",
           "type", "=", SingleQuote, "table", SingleQuote, " ", "AND", " ", "name", "=">>,
         escape(addSchema(tableName)), <<";">>)

foreignKeyCheckQuery(tableName) ==
  Around(<<"PRAGMA", " ", "foreign_key_check", "(">>, QuoteTableName(tableName), <<")", ";">>)

\* The names a caller passes: letters and single quotes.
Names == TextsOver({"t", "x", SingleQuote}, MaxNameLength)

SchemaNames == {<<"s">>}

TableNames ==
  {BareName(n) : n \in Names}
    \cup {NameObject(<<"t">>, <<>>)} \cup {NameObject(<<"t">>, q) : q \in SchemaNames}

ConstraintNameChoices == {<<>>, <<"c">>, <<"c", SingleQuote>>}

\* A call that has returned r.
Finished(name, arguments, r) ==
  IF r.threw THEN Thrown(name, arguments, r.text) ELSE Answered(name, arguments, r.text)

ShowIndexesCall ==
  /\ pc = "idle"
  /\ \E tableName \in TableNames :
       Finished("showIndexesQuery", [tableName |-> tableName], showIndexesQuery(tableName))

ShowConstraintsCall ==
  /\ pc = "idle"
  /\ \E tableName \in TableNames, constraintName \in ConstraintNameChoices :
       Finished("showConstraintsQuery",
                [tableName |-> tableName, constraintName |-> constraintName],
                showConstraintsQuery(tableName, constraintName))

DescribeTableCall ==
  /\ pc = "idle"
  /\ \E tableName \in TableNames, schemaName \in {<<>>} \cup SchemaNames :
       Finished("describeTableQuery", [tableName |-> tableName, schema |-> schemaName],
                describeTableQuery(tableName, schemaName))

DescribeCreateTableCall ==
  /\ pc = "idle"
  /\ \E tableName \in TableNames :
       Finished("describeCreateTableQuery", [tableName |-> tableName],
                describeCreateTableQuery(tableName))

GetForeignKeysCall ==
  /\ pc = "idle"
  /\ \E tableName \in TableNames :
       Finished("getForeignKeysQuery", [tableName |-> tableName], getForeignKeysQuery(tableName))

TableExistsCall ==
  /\ pc = "idle"
  /\ \E tableName \in TableNames :
       Finished("tableExistsQuery", [tableName |-> tableName], tableExistsQuery(tableName))

ForeignKeyCheckCall ==
  /\ pc = "idle"
  /\ \E tableName \in TableNames :
       Finished("foreignKeyCheckQuery", [tableName |-> tableName], foreignKeyCheckQuery(tableName))

(***************************************************************************)
(* C12: every introspection statement passes the table name and the        *)
(* constraint name it is given through identifier or literal escaping, so  *)
(* that a name with a single quote cannot end the literal it stands in:    *)
(* each name is the whole content of one closed quoted region of the text, *)
(* and no quoted region is left open.                                      *)
(***************************************************************************)
IntrospectionOps ==
  {"showIndexesQuery", "showConstraintsQuery", "describeTableQuery",
   "describeCreateTableQuery", "getForeignKeysQuery", "foreignKeyCheckQuery",
   "tableExistsQuery"}

\* The quoted regions of a text, read from lexeme i on: a region opens at a
\* single quote or a backtick and closes at the next such character that is
\* not doubled.  quote is the open region's character ("" outside a region).
RECURSIVE QuotedRegions(_, _, _, _)
QuotedRegions(s, i, quote, content) ==
  IF i > Len(s)
  THEN IF quote = "" THEN <<>> ELSE <<[content |-> content, closed |-> FALSE]>>
  ELSE IF quote = ""
  THEN IF s[i] \in {SingleQuote, Tick} THEN QuotedRegions(s, i + 1, s[i], <<>>)
       ELSE QuotedRegions(s, i + 1, "", <<>>)
  ELSE IF s[i] = quote /\ i < Len(s) /\ s[i + 1] = quote
  THEN QuotedRegions(s, i + 2, quote, Append(content, quote))
  ELSE IF s[i] = quote
  THEN <<[content |-> content, closed |-> TRUE]>> \o QuotedRegions(s, i + 1, "", <<>>)
  ELSE QuotedRegions(s, i + 1, quote, Append(content, s[i]))

RegionsOf(s) == QuotedRegions(s, 1, "", <<>>)

\* name is what one closed region of the text holds (between % in a pattern).
HeldInRegion(s, name) ==
  \E k \in 1..Len(RegionsOf(s)) :
    /\ RegionsOf(s)[k].closed
    /\ RegionsOf(s)[k].content \in {name, <<"%">> \o name \o <<"%">>}

IntrospectionReturned ==
  /\ op \in IntrospectionOps
  /\ pc = "returned"
  /\ args.tableName.typeof = "string"

C12_IntrospectionNamesEscaped ==
  IntrospectionReturned =>
    /\ \A k \in 1..Len(RegionsOf(sql)) : RegionsOf(sql)[k].closed
    /\ HeldInRegion(sql, args.tableName.value)
    /\ (op = "showConstraintsQuery" /\ args.constraintName # <<>>)
         => HeldInRegion(sql, args.constraintName)

\* The table name t'x ends the literal of showConstraintsQuery after t.
C12_Witness ==
  /\ op = "showConstraintsQuery"
  /\ pc = "returned"
  /\ args.tableName = BareName(<<"t", SingleQuote, "x">>)
  /\ args.constraintName = <<>>
  /\ RegionsOf(sql)[1] = [content |-> <<"t">>, closed |-> TRUE]
  /\ ~RegionsOf(sql)[Len(RegionsOf(sql))].closed

(***************************************************************************)
(* updateQuery and deleteQuery.  A value hash and a where condition are    *)
(* objects (sequences of key and value); a value is a number, a string or  *)
(* a literal.  options.bindParam is undefined, false, or a function of the *)
(* caller.                                                                 *)
(***************************************************************************)
MaxCalls == 2

Undefined == [typeof |-> "undefined", value |-> <<>>]
\* A number, held as its decimal digits.
NumberValue(n) == [typeof |-> "number", value |-> <<ToString(n)>>]
LiteralValue(text) == [typeof |-> "literal", value |-> text]

\* if (v)
IsTruthy(v) ==
  CASE v.typeof = "undefined" -> FALSE
    [] v.typeof = "number" -> v.value # <<"0">>
    [] OTHER -> v.value # <<>>

\* String.prototype.trim
RECURSIVE Trim(_)
Trim(s) ==
  IF s = <<>> THEN s
  ELSE IF s[1] = " " THEN Trim(Tail(s))
  ELSE IF s[Len(s)] = " " THEN Trim(SubSeq(s, 1, Len(s) - 1))
  ELSE s

\* The function that updateQuery passes to format: this.bindParam(bind), which
\* adds the value to bind and returns its placeholder, or the caller's function.
BindValue(value, binder, entries) ==
  IF binder = "own"
  THEN [text |-> <<"$", ToString(Len(entries) + 1)>>, entries |-> Append(entries, value)]
  ELSE [text |-> <<"$", "p">>, entries |-> entries]

\* key=value for each pair of obj: the value as its literal, or as a placeholder.
RECURSIVE Assignments(_, _, _)
Assignments(obj, binder, entries) ==
  IF obj = <<>> THEN [texts |-> <<>>, entries |-> entries]
  ELSE LET value == obj[1].value
           written == IF value.typeof = "literal" \/ binder = "none"
                      THEN [text |-> escape(value).text, entries |-> entries]
                      ELSE BindValue(value, binder, entries)
           rest == Assignments(Tail(obj), binder, written.entries)
       IN  [texts |-> <<Cat3(quoteIdentifier(obj[1].key), <<"=">>, written.text)>> \o rest.texts,
            entries |-> rest.entries]

\* The conditions of a where object, joined by AND.
WhereItems(texts) == Join(texts, <<" ", "AND", " ">>)

\* whereQuery: WHERE and the conditions, or nothing.
whereQuery(texts) == IF texts = <<>> THEN <<>> ELSE Cat(<<"WHERE", " ">>, WhereItems(texts))

BinderOf(bindParam) ==
  CASE bindParam = "undefined" -> "own"
    [] bindParam = "false" -> "none"
    [] OTHER -> "caller"

RowidIn(table, whereClause, limit) ==
  Cat3(Cat3(<<"WHERE", " ", "rowid", " ", "IN", " ", "(", "SELECT", " ", "rowid", " ",
              "FROM", " ">>, table, <<" ">>),
       whereClause,
       Cat3(<<" ", "LIMIT", " ">>, escape(limit).text, <<")">>))

updateQueryBindSetOnly(tableName, attrValueHash, where, options) ==
  LET binder == BinderOf(options.bindParam)
      values == Assignments(attrValueHash, binder, <<>>)
      conditions == Assignments(where, binder, values.entries)
      table == QuoteTableName(tableName)
      head == Cat3(Cat3(<<"UPDATE", " ">>, table.text, <<" ", "SET", " ">>),
                   Join(values.texts, <<",">>), <<" ">>)
      query == IF IsTruthy(options.limit)
               THEN Trim(Cat(head, RowidIn(table.text, whereQuery(conditions.texts), options.limit)))
               ELSE Trim(Cat(head, whereQuery(conditions.texts)))
  IN  IF table.threw THEN [threw |-> TRUE, text |-> table.text, hasBind |-> FALSE, entries |-> <<>>]
      ELSE [threw |-> FALSE, text |-> query,
            hasBind |-> options.bindParam # "false", entries |-> values.entries]

updateQuery(tableName, attrValueHash, where, options) ==
  LET binder == BinderOf(options.bindParam)
      values == Assignments(attrValueHash, binder, <<>>)
      conditions == Assignments(where, binder, values.entries)
      table == QuoteTableName(tableName)
      head == Cat3(Cat3(<<"UPDATE", " ">>, table.text, <<" ", "SET", " ">>),
                   Join(values.texts, <<",">>), <<" ">>)
      query == IF IsTruthy(options.limit)
               THEN Trim(Cat(head, RowidIn(table.text, whereQuery(conditions.texts), options.limit)))
               ELSE Trim(Cat(head, whereQuery(conditions.texts)))
  IN  IF table.threw THEN [threw |-> TRUE, text |-> table.text, hasBind |-> FALSE, entries |-> <<>>]
      ELSE [threw |-> FALSE, text |-> query,
            hasBind |-> options.bindParam # "false", entries |-> conditions.entries]

deleteQueryTrailingLimit(tableName, where, options) ==
  LET conditions == Assignments(where, "none", <<>>)
      whereClause == IF conditions.texts # <<>>
                     THEN Cat(<<"WHERE", " ">>, WhereItems(conditions.texts))
                     ELSE <<>>
      table == QuoteTableName(tableName)
      limited == IF IsTruthy(options.limit)
                 THEN Cat(whereClause, Cat(<<" ", "LIMIT", " ">>, escape(options.limit).text))
                 ELSE whereClause
  IN  IF table.threw THEN table
      ELSE Ok(Trim(Cat3(<<"DELETE", " ", "FROM", " ">>, table.text, Cat(<<" ">>, limited))))

deleteQuery(tableName, where, options) ==
  LET conditions == Assignments(where, "none", <<>>)
      whereClause == IF conditions.texts # <<>>
                     THEN Cat(<<"WHERE", " ">>, WhereItems(conditions.texts))
                     ELSE <<>>
      table == QuoteTableName(tableName)
      limited == IF IsTruthy(options.limit)
                 THEN RowidIn(table.text, whereClause, options.limit)
                 ELSE whereClause
  IN  IF table.threw THEN table
      ELSE Ok(Trim(Cat3(<<"DELETE", " ", "FROM", " ">>, table.text, Cat(<<" ">>, limited))))

ValueHashes ==
  {<<[key |-> <<"a">>, value |-> NumberValue(1)]>>,
   <<[key |-> <<"a">>, value |-> NumberValue(1)], [key |-> <<"b">>, value |-> StringValue(<<"v">>)]>>,
   <<[key |-> <<"a">>, value |-> LiteralValue(<<"NOW", "(", ")">>)]>>}

Wheres ==
  {<<>>,
   <<[key |-> <<"id">>, value |-> NumberValue(7)]>>,
   <<[key |-> <<"id">>, value |-> NumberValue(7)], [key |-> <<"b">>, value |-> StringValue(<<"w">>)]>>}

Limits == {Undefined, NumberValue(0), NumberValue(1), NumberValue(2)}

BindParams == {"undefined", "false", "function"}

ModifiedTables == {BareName(<<"t">>), NameObject(<<"t">>, <<"s">>)}

\* The generator's own options (this.options).
GeneratorOptionChoices ==
  {<<>>, <<[key |-> <<"dialect">>, value |-> StringValue(<<"sqlite">>)]>>}

\* The options object of the caller: the properties that have a value.
OptionsObject(options) ==
  (IF options.limit.typeof # "undefined"
   THEN <<[key |-> <<"limit">>, value |-> options.limit]>>
   ELSE <<>>)
    \o (IF "bindParam" \in DOMAIN options /\ options.bindParam # "undefined"
        THEN <<[key |-> <<"bindParam">>,
                value |-> [typeof |-> options.bindParam, value |-> <<>>]]>>
        ELSE <<>>)

\* _.defaults(object, source): every property of source that object does not
\* have is added to object.
Defaults(object, source) ==
  object \o SelectSeq(source, LAMBDA e : \A i \in 1..Len(object) : object[i].key # e.key)

\* updateQuery returns {query, bind}: bind is the object that this call created.
UpdateQueryCall ==
  /\ pc = "idle" \/ (pc = "returned" /\ op = "updateQuery")
  /\ Cardinality(objects) < MaxCalls
  /\ \E tableName \in ModifiedTables, attrValueHash \in ValueHashes, where \in Wheres,
        limit \in Limits, bindParam \in BindParams,
        generatorOptions \in GeneratorOptionChoices :
       LET options == [limit |-> limit, bindParam |-> bindParam]
           created == Cardinality(objects) + 1
           result == updateQuery(tableName, attrValueHash, where, options)
           arguments == [tableName |-> tableName, attrValueHash |-> attrValueHash,
                         where |-> where, options |-> options]
       IN  /\ op' = "updateQuery"
           /\ args' = arguments
           /\ heap' = [arguments EXCEPT
                         !.options = Defaults(OptionsObject(options), generatorOptions)]
           /\ sql' = result.text
           /\ pc' = IF result.threw THEN "threw" ELSE "returned"
           /\ objects' = objects \cup {created}
           /\ bind' = IF result.hasBind
                      THEN [present |-> TRUE, id |-> created, entries |-> result.entries]
                      ELSE NoBind
           /\ UNCHANGED <<stmts, ip, db, scanVars, connectVars>>

DeleteQueryCall ==
  /\ pc = "idle"
  /\ \E tableName \in ModifiedTables, where \in Wheres, limit \in Limits,
        generatorOptions \in GeneratorOptionChoices :
       LET options == [limit |-> limit]
           result == deleteQuery(tableName, where, options)
           arguments == [tableName |-> tableName, where |-> where, options |-> options]
       IN  /\ op' = "deleteQuery"
           /\ args' = arguments
           /\ heap' = [arguments EXCEPT
                         !.options = Defaults(OptionsObject(options), generatorOptions)]
           /\ sql' = result.text
           /\ pc' = IF result.threw THEN "threw" ELSE "returned"
           /\ UNCHANGED <<stmts, ip, db, bind, objects, scanVars, connectVars>>

(***************************************************************************)
(* C13: with a positive options.limit n, deleteQuery and updateQuery never *)
(* append a trailing LIMIT: the only LIMIT stands inside the parenthesised *)
(* subquery, and the outer WHERE is                                        *)
(* rowid IN (SELECT rowid FROM <table> <original where> LIMIT n), where    *)
(* the original where is the WHERE clause of the same call without limit.  *)
(***************************************************************************)
LimitedReturned ==
  /\ op \in {"deleteQuery", "updateQuery"}
  /\ pc = "returned"
  /\ args.options.limit.typeof = "number"
  /\ args.options.limit.value # <<"0">>

\* The text of the same call made without options.limit.
PlainQuery ==
  IF op = "deleteQuery"
  THEN deleteQuery(args.tableName, args.where, [limit |-> Undefined]).text
  ELSE updateQuery(args.tableName, args.attrValueHash, args.where,
                   [args.options EXCEPT !.limit = Undefined]).text

\* Its WHERE clause, and what stands before it.
OriginalWhere ==
  IF Includes(PlainQuery, <<"WHERE">>)
  THEN SliceFrom(PlainQuery, IndexOf(PlainQuery, <<"WHERE">>))
  ELSE <<>>

BeforeWhere ==
  IF Includes(PlainQuery, <<"WHERE">>)
  THEN SubSeq(PlainQuery, 1, IndexOf(PlainQuery, <<"WHERE">>) - 1)
  ELSE PlainQuery \o <<" ">>

C13_LimitInSubquery ==
  LimitedReturned =>
    /\ \A i \in 1..Len(sql) : sql[i] = "LIMIT" => DepthAt(sql, i) = 1
    /\ sql[Len(sql)] = ")"
    /\ sql = BeforeWhere
               \o <<"WHERE", " ", "rowid", " ", "IN", " ", "(", "SELECT", " ", "rowid", " ",
                    "FROM", " ">>
               \o quoteTable(args.tableName.value) \o <<" ">>
               \o OriginalWhere
               \o <<" ", "LIMIT", " ">> \o args.options.limit.value \o <<")">>

\* A delete of at most two rows that match a condition.
C13_Witness ==
  /\ op = "deleteQuery"
  /\ pc = "returned"
  /\ args.options.limit = NumberValue(2)
  /\ args.where # <<>>
  /\ OriginalWhere = <<"WHERE", " ", Tick, "id", Tick, "=", "7">>
  /\ Includes(sql, <<"LIMIT", " ", "2", ")">>)

(***************************************************************************)
(* addLimitAndOffset                                                       *)
(***************************************************************************)
Null == [typeof |-> "null", value |-> <<>>]

\* v == null
IsNullish(v) == v.typeof \in {"undefined", "null"}

addLimitAndOffsetNoSentinel(options) ==
  LET limitPart == IF ~IsNullish(options.limit)
                   THEN Cat(<<" ", "LIMIT", " ">>, escape(options.limit).text)
                   ELSE <<>>
      offsetPart == IF IsTruthy(options.offset)
                    THEN Cat(<<" ", "OFFSET", " ">>, escape(options.offset).text)
                    ELSE <<>>
  IN  Cat(limitPart, offsetPart)

addLimitAndOffset(options) ==
  LET limitPart == IF ~IsNullish(options.limit)
                   THEN Cat(<<" ", "LIMIT", " ">>, escape(options.limit).text)
                   ELSE IF IsTruthy(options.offset)
                   THEN <<" ", "LIMIT", " ", "-", "1">>
                   ELSE <<>>
      offsetPart == IF IsTruthy(options.offset)
                    THEN Cat(<<" ", "OFFSET", " ">>, escape(options.offset).text)
                    ELSE <<>>
  IN  Cat(limitPart, offsetPart)

LimitChoices == {Undefined, Null, NumberValue(0), NumberValue(1), NumberValue(2)}
OffsetChoices == {Undefined, Null, NumberValue(0), NumberValue(1), NumberValue(5)}

AddLimitAndOffsetCall ==
  /\ pc = "idle"
  /\ \E limit \in LimitChoices, offset \in OffsetChoices :
       Answered("addLimitAndOffset", [options |-> [limit |-> limit, offset |-> offset]],
                addLimitAndOffset([limit |-> limit, offset |-> offset]))

(***************************************************************************)
(* C14: addLimitAndOffset never emits OFFSET without a LIMIT before it.    *)
(* With only an offset other than 0 it emits LIMIT -1 OFFSET <offset>,     *)
(* with a limit and an offset other than 0 LIMIT <limit> OFFSET <offset>,  *)
(* with a limit and no offset, or the offset 0, LIMIT <limit>, and with    *)
(* no limit and no offset, or the offset 0, the empty string.              *)
(***************************************************************************)
LimitOffsetReturned == op = "addLimitAndOffset" /\ pc = "returned"

LimitText == <<" ", "LIMIT", " ">> \o args.options.limit.value
OffsetText == <<" ", "OFFSET", " ">> \o args.options.offset.value
Sentinel == <<" ", "LIMIT", " ", "-", "1">>

OffsetAfterLimit ==
  \A i \in 1..Len(sql) : sql[i] = "OFFSET" => \E j \in 1..(i - 1) : sql[j] = "LIMIT"

\* The four cases, for the given reading of "there is an offset".
FourCases(hasLimit, hasOffset) ==
  /\ (~hasLimit /\ hasOffset) => sql = Sentinel \o OffsetText
  /\ (hasLimit /\ hasOffset) => sql = LimitText \o OffsetText
  /\ (hasLimit /\ ~hasOffset) => sql = LimitText
  /\ (~hasLimit /\ ~hasOffset) => sql = <<>>

C14_LimitBeforeOffset ==
  LimitOffsetReturned =>
    /\ OffsetAfterLimit
    /\ FourCases(~IsNullish(args.options.limit),
                 ~IsNullish(args.options.offset) /\ args.options.offset.value # <<"0">>)

\* The claim as stated: an offset is any offset that is given, 0 included.
C14_Original ==
  LimitOffsetReturned =>
    /\ OffsetAfterLimit
    /\ FourCases(~IsNullish(args.options.limit), ~IsNullish(args.options.offset))

\* Only an offset: the unbounded limit -1 is written before it.
C14_Witness ==
  /\ LimitOffsetReturned
  /\ IsNullish(args.options.limit)
  /\ args.options.offset = NumberValue(5)
  /\ sql = <<" ", "LIMIT", " ", "-", "1", " ", "OFFSET", " ", "5">>

(***************************************************************************)
(* jsonPathExtractionQuery.  The path is an array of segments; a segment   *)
(* and the joined path are sequences of characters.                        *)
(***************************************************************************)
MaxSegments == 3

\* _.toPath of an array and Array.prototype.join('.') after ['$'].concat.
RECURSIVE JoinSegments(_)
JoinSegments(segments) ==
  IF segments = <<>> THEN <<>>
  ELSE <<".">> \o segments[1] \o JoinSegments(Tail(segments))

\* /\.(\d+)(?:(?=\.)|$)/ at position i of s: the position after the digits, 0
\* when it does not match there.
IndexMatchEndAtLast(s, i) ==
  IF i < Len(s) /\ s[i] = "." /\ s[i + 1] \in Digits
  THEN LET e == SkipWhile(s, i + 1, Digits)
       IN  IF e > Len(s) THEN e ELSE 0
  ELSE 0

IndexMatchEnd(s, i) ==
  IF i < Len(s) /\ s[i] = "." /\ s[i + 1] \in Digits
  THEN LET e == SkipWhile(s, i + 1, Digits)
       IN  IF e > Len(s) \/ s[e] = "." THEN e ELSE 0
  ELSE 0

\* replace(/\.(\d+)(?:(?=\.)|$)/g, (__, digit) => `[${digit}]`) from position i on.
RECURSIVE ReplaceIndexes(_, _)
ReplaceIndexes(s, i) ==
  IF i > Len(s) THEN <<>>
  ELSE IF IndexMatchEnd(s, i) # 0
  THEN <<"[">> \o SubSeq(s, i + 1, IndexMatchEnd(s, i) - 1) \o <<"]">>
         \o ReplaceIndexes(s, IndexMatchEnd(s, i))
  ELSE <<s[i]>> \o ReplaceIndexes(s, i + 1)

\* The characters of a string as the lexemes of a text.
Lexemes(chars) == CatAll([i \in 1..Len(chars) |-> <<chars[i]>>])

\* isIdentifierQuoted: the identifier stands between two quote characters of
\* one kind, with no such character in between.
isIdentifierQuoted(identifier) ==
  /\ Len(identifier) >= 2
  /\ identifier[1] \in {Tick, DoubleQuote, SingleQuote}
  /\ identifier[Len(identifier)] = identifier[1]
  /\ \A i \in 2..(Len(identifier) - 1) : identifier[i] # identifier[1]

jsonPathExtractionQuery(column, path) ==
  LET quotedColumn == IF isIdentifierQuoted(column) THEN column ELSE quoteIdentifier(column)
      pathStr == escape(StringValue(Lexemes(ReplaceIndexes(<<"$">> \o JoinSegments(path), 1)))).text
  IN  CatAll(<<<<"json_extract", "(">>, quotedColumn, <<",">>, pathStr, <<")">>>>)

Segments == {<<"a">>, <<"b">>, <<"0">>, <<"1", "2">>, <<"0", "a">>}

Paths == UNION {[1..k -> Segments] : k \in 0..MaxSegments}

Columns == {<<"data">>, <<Tick, "data", Tick>>, <<DoubleQuote, "data", DoubleQuote>>}

JsonPathExtractionCall ==
  /\ pc = "idle"
  /\ \E column \in Columns, path \in Paths :
       Answered("jsonPathExtractionQuery", [column |-> column, path |-> path],
                jsonPathExtractionQuery(column, path))

(***************************************************************************)
(* C15: jsonPathExtractionQuery writes the path as $ followed by each      *)
(* segment in turn: [n] for a segment n of digits only, wherever it        *)
(* stands, and .s for any other segment s; ["a", 0, "b"] gives $.a[0].b.   *)
(* The result is json_extract(<column>,'<path>') where the column is       *)
(* quoted unless it is quoted already.                                     *)
(***************************************************************************)
AllDigits(segment) == \A i \in 1..Len(segment) : segment[i] \in Digits

\* The path as the claim builds it, segment by segment.
RECURSIVE PathOf(_)
PathOf(segments) ==
  IF segments = <<>> THEN <<>>
  ELSE (IF AllDigits(segments[1])
        THEN <<"[">> \o segments[1] \o <<"]">>
        ELSE <<".">> \o segments[1])
         \o PathOf(Tail(segments))

\* The text between the single quotes of the second argument of json_extract.
WrittenPath ==
  LET comma == SetMin({i \in 1..Len(sql) : sql[i] = ","})
  IN  SubSeq(sql, comma + 2, Len(sql) - 2)

WrittenColumn ==
  LET comma == SetMin({i \in 1..Len(sql) : sql[i] = ","})
  IN  SubSeq(sql, 3, comma - 1)

JsonPathReturned == op = "jsonPathExtractionQuery" /\ pc = "returned"

C15_JsonPath ==
  JsonPathReturned =>
    /\ sql[1] = "json_extract" /\ sql[2] = "(" /\ sql[Len(sql)] = ")"
    /\ WrittenPath = Lexemes(<<"$">> \o PathOf(args.path))
    /\ WrittenColumn = IF args.column[1] \in {Tick, DoubleQuote}
                       THEN args.column
                       ELSE <<Tick>> \o args.column \o <<Tick>>
    /\ (args.path = <<<<"a">>, <<"0">>, <<"b">>>>)
         => WrittenPath = <<"$", ".", "a", "[", "0", "]", ".", "b">>

\* Two indexes in a row, in first and middle place, before a name.
C15_Witness ==
  /\ JsonPathReturned
  /\ args.path = <<<<"0">>, <<"1", "2">>, <<"a">>>>
  /\ args.column = <<"data">>
  /\ sql = <<"json_extract", "(", Tick, "data", Tick, ",", SingleQuote,
             "$", "[", "0", "]", "[", "12", "]", ".", "a", SingleQuote, ")">>

(***************************************************************************)
(* C16: every operation that takes a table name rejects a schema-qualified *)
(* name (an object that carries a schema) with an error: no call with such *)
(* a name returns SQL.                                                     *)
(***************************************************************************)
TableOps == IntrospectionOps \cup {"updateQuery", "deleteQuery"}

C16_SchemaQualifiedRejected ==
  (op \in TableOps /\ pc # "idle" /\ IsSchemaQualified(args.tableName)) => pc = "threw"

\* describeCreateTableQuery of {tableName: 't', schema: 's'} returns a statement
\* that looks for the table [object Object].
C16_Witness ==
  /\ op = "describeCreateTableQuery"
  /\ pc = "returned"
  /\ args.tableName = NameObject(<<"t">>, <<"s">>)
  /\ Includes(sql, <<"tbl_name", "=", SingleQuote, "[", "object", " ", "Object", "]", SingleQuote>>)

(***************************************************************************)
(* The schema operations.  They declare no parameter: what the caller      *)
(* passes is ignored.                                                      *)
(***************************************************************************)
createSchemaQueryAsSql(dialectName) == Ok(<<"CREATE", " ", "SCHEMA">>)

createSchemaQuery(dialectName) == Err(SchemasNotSupported(dialectName))

dropSchemaQuery(dialectName) == Err(SchemasNotSupported(dialectName))

listSchemasQuery(dialectName) == Err(SchemasNotSupported(dialectName))

SchemaArguments == {Undefined, StringValue(<<"s">>), StringValue(<<"main">>)}

CreateSchemaCall ==
  /\ pc = "idle"
  /\ \E schemaName \in SchemaArguments :
       Finished("createSchemaQuery", [schema |-> schemaName], createSchemaQuery(DialectName))

DropSchemaCall ==
  /\ pc = "idle"
  /\ \E schemaName \in SchemaArguments :
       Finished("dropSchemaQuery", [schema |-> schemaName], dropSchemaQuery(DialectName))

ListSchemasCall ==
  /\ pc = "idle"
  /\ \E schemaName \in SchemaArguments :
       Finished("listSchemasQuery", [schema |-> schemaName], listSchemasQuery(DialectName))

(***************************************************************************)
(* C17: createSchemaQuery, dropSchemaQuery and listSchemasQuery fail for   *)
(* every argument: they throw an error whose message names schemas and the *)
(* name of the dialect, and return no SQL.                                 *)
(***************************************************************************)
SchemaOps == {"createSchemaQuery", "dropSchemaQuery", "listSchemasQuery"}

C17_SchemaOperationsFail ==
  (op \in SchemaOps /\ pc # "idle") =>
    /\ pc = "threw"
    /\ Includes(sql, <<"Schemas", " ", "are", " ", "not", " ", "supported">>)
    /\ Includes(sql, DialectName)

\* createSchemaQuery('s') has thrown.
C17_Witness ==
  /\ op = "createSchemaQuery"
  /\ args.schema = StringValue(<<"s">>)
  /\ pc = "threw"
  /\ sql = <<"Schemas", " ", "are", " ", "not", " ", "supported", " ", "in", " ", "sqlite", ".">>

(***************************************************************************)
(* setIsolationLevelQuery                                                  *)
(***************************************************************************)
\* Transaction.ISOLATION_LEVELS
ISOLATION_LEVELS ==
  [READ_UNCOMMITTED |-> StringValue(<<"READ", " ", "UNCOMMITTED">>),
   READ_COMMITTED |-> StringValue(<<"READ", " ", "COMMITTED">>),
   REPEATABLE_READ |-> StringValue(<<"REPEATABLE", " ", "READ">>),
   SERIALIZABLE |-> StringValue(<<"SERIALIZABLE">>)]

ReadUncommittedPragma(setting) ==
  <<"PRAGMA", " ", "read_uncommitted", " ", "=", " ", setting, ";">>

setIsolationLevelQuerySwapped(value) ==
  CASE value = ISOLATION_LEVELS.REPEATABLE_READ ->
         Ok(<<"-", "-", " ">> \o Sp(<<"SQLite", "is", "not", "able", "to", "choose", "the",
                                      "isolation", "level", "REPEATABLE", "READ">>) \o <<".">>)
    [] value = ISOLATION_LEVELS.READ_UNCOMMITTED -> Ok(ReadUncommittedPragma("OFF"))
    [] value = ISOLATION_LEVELS.READ_COMMITTED -> Ok(ReadUncommittedPragma("ON"))
    [] value = ISOLATION_LEVELS.SERIALIZABLE ->
         Ok(<<"-", "-", " ", "SQLite", SingleQuote, "s", " ">>
              \o Sp(<<"default", "isolation", "level", "is", "SERIALIZABLE">>)
              \o <<".", " ">> \o Sp(<<"Nothing", "to", "do">>) \o <<".">>)
    [] OTHER ->
         Err(Cat(<<"Unknown", " ", "isolation", " ", "level", ":", " ">>, TemplateString(value)))

setIsolationLevelQuery(value) ==
  CASE value = ISOLATION_LEVELS.REPEATABLE_READ ->
         Ok(<<"-", "-", " ">> \o Sp(<<"SQLite", "is", "not", "able", "to", "choose", "the",
                                      "isolation", "level", "REPEATABLE", "READ">>) \o <<".">>)
    [] value = ISOLATION_LEVELS.READ_UNCOMMITTED -> Ok(ReadUncommittedPragma("ON"))
    [] value = ISOLATION_LEVELS.READ_COMMITTED -> Ok(ReadUncommittedPragma("OFF"))
    [] value = ISOLATION_LEVELS.SERIALIZABLE ->
         Ok(<<"-", "-", " ", "SQLite", SingleQuote, "s", " ">>
              \o Sp(<<"default", "isolation", "level", "is", "SERIALIZABLE">>)
              \o <<".", " ">> \o Sp(<<"Nothing", "to", "do">>) \o <<".">>)
    [] OTHER ->
         Err(Cat(<<"Unknown", " ", "isolation", " ", "level", ":", " ">>, TemplateString(value)))

IsolationValues ==
  {ISOLATION_LEVELS.READ_UNCOMMITTED, ISOLATION_LEVELS.READ_COMMITTED,
   ISOLATION_LEVELS.REPEATABLE_READ, ISOLATION_LEVELS.SERIALIZABLE,
   StringValue(<<"SNAPSHOT">>), StringValue(<<"read", " ", "committed">>),
   StringValue(<<>>), Undefined}

SetIsolationLevelCall ==
  /\ pc = "idle"
  /\ \E value \in IsolationValues :
       Finished("setIsolationLevelQuery", [value |-> value], setIsolationLevelQuery(value))

(***************************************************************************)
(* C18: setIsolationLevelQuery returns PRAGMA read_uncommitted = ON; for   *)
(* READ_UNCOMMITTED, PRAGMA read_uncommitted = OFF; for READ_COMMITTED, a  *)
(* one-line SQL comment for REPEATABLE_READ and SERIALIZABLE, and for any  *)
(* other value throws an error whose message ends with that value.         *)
(***************************************************************************)
IsComment(s) ==
  /\ Len(s) > 2
  /\ s[1] = "-" /\ s[2] = "-"
  /\ \A i \in 1..Len(s) : s[i] \notin LineTerminators

EndsWith(s, p) == Len(p) <= Len(s) /\ SubSeq(s, Len(s) - Len(p) + 1, Len(s)) = p

C18_IsolationLevels ==
  (op = "setIsolationLevelQuery" /\ pc # "idle") =>
    CASE args.value = ISOLATION_LEVELS.READ_UNCOMMITTED ->
           pc = "returned" /\ sql = <<"PRAGMA", " ", "read_uncommitted", " ", "=", " ", "ON", ";">>
      [] args.value = ISOLATION_LEVELS.READ_COMMITTED ->
           pc = "returned" /\ sql = <<"PRAGMA", " ", "read_uncommitted", " ", "=", " ", "OFF", ";">>
      [] args.value \in {ISOLATION_LEVELS.REPEATABLE_READ, ISOLATION_LEVELS.SERIALIZABLE} ->
           pc = "returned" /\ IsComment(sql)
      [] OTHER ->
           /\ pc = "threw"
           /\ Includes(sql, <<"Unknown", " ", "isolation", " ", "level">>)
           /\ EndsWith(sql, TemplateString(args.value))
           /\ args.value.typeof = "string" => Includes(sql, <<":", " ">> \o args.value.value)

\* An unknown level is refused by name.
C18_Witness ==
  /\ op = "setIsolationLevelQuery"
  /\ args.value = StringValue(<<"SNAPSHOT">>)
  /\ pc = "threw"
  /\ sql = <<"Unknown", " ", "isolation", " ", "level", ":", " ", "SNAPSHOT">>

(***************************************************************************)
(* C19: updateQuery called with options.bindParam undefined returns, with  *)
(* the text, a bind mapping created in that call that holds one entry for  *)
(* each placeholder of the text, those of the SET list and those of the    *)
(* WHERE clause, in their order; called with a bindParam function of the   *)
(* caller it returns a mapping created in that call that is empty, the     *)
(* placeholders being the caller's.  No call returns a mapping that an     *)
(* earlier call created.  With options.bindParam false there is no bind    *)
(* mapping, no placeholder, and every value is written as its literal.     *)
(***************************************************************************)
UpdateReturned == op = "updateQuery" /\ pc = "returned"

\* The number of placeholders in a text.
Placeholders(s) == Cardinality({i \in 1..Len(s) : s[i] = "$"})

\* The values of the hash and of the where object that are not literals.
RECURSIVE BoundValues(_)
BoundValues(obj) ==
  IF obj = <<>> THEN <<>>
  ELSE (IF obj[1].value.typeof = "literal" THEN <<>> ELSE <<obj[1].value>>)
         \o BoundValues(Tail(obj))

\* Every value of obj stands in the text as key=<escaped literal>.
Inlined(obj) ==
  \A i \in 1..Len(obj) :
    Includes(sql, <<Tick>> \o obj[i].key \o <<Tick, "=">> \o escape(obj[i].value).text)

BindFalseCase ==
  (UpdateReturned /\ args.options.bindParam = "false") =>
    /\ ~bind.present
    /\ Placeholders(sql) = 0
    /\ Inlined(args.attrValueHash)
    /\ Inlined(args.where)

OwnBindCase ==
  (UpdateReturned /\ args.options.bindParam = "undefined") =>
    /\ bind.present
    /\ Len(bind.entries) = Placeholders(sql)
    /\ bind.entries = BoundValues(args.attrValueHash) \o BoundValues(args.where)
    /\ \A k \in 1..Len(bind.entries) : Includes(sql, <<"=", "$", ToString(k)>>)

CallerBindCase ==
  (UpdateReturned /\ args.options.bindParam = "function") =>
    /\ bind.present
    /\ bind.entries = <<>>
    /\ Placeholders(sql) = Len(BoundValues(args.attrValueHash) \o BoundValues(args.where))

\* The mapping a call returns is not one that existed before the call.
FreshBind == (op' = "updateQuery" /\ bind'.present) => bind'.id \notin objects

C19_BindPerCall ==
  /\ [](BindFalseCase /\ OwnBindCase /\ CallerBindCase)
  /\ [][FreshBind]_vars

\* The claim as stated: whenever bindParam is not false, one entry for each
\* placeholder.
C19_Original ==
  /\ [](BindFalseCase
        /\ ((UpdateReturned /\ args.options.bindParam # "false") =>
              (bind.present /\ Len(bind.entries) = Placeholders(sql))))
  /\ [][FreshBind]_vars

\* A second call: two values and a condition, bound as $1, $2 and $3 in the
\* second mapping.
C19_Witness ==
  /\ UpdateReturned
  /\ args.options.bindParam = "undefined"
  /\ bind.present /\ bind.id = 2
  /\ Len(bind.entries) = 3
  /\ Includes(sql, <<"=", "$", "1", ",">>)
  /\ Includes(sql, <<"WHERE", " ", Tick, "id", Tick, "=", "$", "3">>)

(***************************************************************************)
(* replaceBooleanDefaults on any text: the texts are made of the pieces    *)
(* the pattern is about, in every order.                                   *)
(***************************************************************************)
MaxPieces == 5

DefaultPieces ==
  {<<"DEFAULT", " ">>, <<"XDEFAULT", " ">>, <<SingleQuote>>, <<" ">>,
   <<"true">>, <<"false">>, <<"falsehood">>}

SqlTexts ==
  {CatChars(pieces) : pieces \in UNION {[1..k -> DefaultPieces] : k \in 1..MaxPieces}}

ReplaceBooleanDefaultsCall ==
  /\ pc = "idle"
  /\ \E text \in SqlTexts :
       /\ IsText(text)
       /\ Answered("replaceBooleanDefaults", [sql |-> text], replaceBooleanDefaults(text))

(***************************************************************************)
(* C20: replaceBooleanDefaults is idempotent, applying it to its result    *)
(* changes nothing, and its result contains none of DEFAULT true,          *)
(* DEFAULT 'true', DEFAULT false, DEFAULT 'false'.                         *)
(***************************************************************************)
\* The text s contains DEFAULT, a blank and the word tok, bare or between quotes.
ContainsBare(s, tok) ==
  \E i \in 1..(Len(s) - 2) :
    EndsWithWord(s[i], "DEFAULT") /\ s[i + 1] = " " /\ StartsWithWord(s[i + 2], tok)

ContainsQuoted(s, tok) ==
  \E i \in 1..(Len(s) - 4) :
    /\ EndsWithWord(s[i], "DEFAULT") /\ s[i + 1] = " "
    /\ s[i + 2] = SingleQuote /\ s[i + 3] = tok /\ s[i + 4] = SingleQuote

BooleanDefaultsReturned == op = "replaceBooleanDefaults" /\ pc = "returned"

C20_BooleanDefaultsIdempotent ==
  BooleanDefaultsReturned =>
    /\ replaceBooleanDefaults(sql) = sql
    /\ \A tok \in {"true", "false"} : ~ContainsBare(sql, tok) /\ ~ContainsQuoted(sql, tok)

\* Two defaults in one text: both are rewritten.
C20_Witness ==
  /\ BooleanDefaultsReturned
  /\ args.sql = <<"DEFAULT", " ", "false", " ", "DEFAULT", " ", "true">>
  /\ sql = <<"DEFAULT", " ", "0", " ", "DEFAULT", " ", "1">>

\* The calls that return one text.
NextQueries ==
  \/ QuoteIdentifierCall
  \/ ShowIndexesCall
  \/ ShowConstraintsCall
  \/ DescribeTableCall
  \/ DescribeCreateTableCall
  \/ GetForeignKeysCall
  \/ TableExistsCall
  \/ ForeignKeyCheckCall
  \/ UpdateQueryCall
  \/ DeleteQueryCall
  \/ AddLimitAndOffsetCall
  \/ JsonPathExtractionCall
  \/ CreateSchemaCall
  \/ DropSchemaCall
  \/ ListSchemasCall
  \/ SetIsolationLevelCall
  \/ ReplaceBooleanDefaultsCall

SpecQueries == Init /\ [][NextQueries]_vars

(***************************************************************************)
(* handleSequelizeMethod.  smth is a Cast (a value and a type), a Literal  *)
(* (a text) or a Json (a column and a path).                               *)
(***************************************************************************)
CastNode(val, type) ==
  [kind |-> "Cast", val |-> val, type |-> type, column |-> <<>>, path |-> <<>>]
LiteralNode(text) ==
  [kind |-> "Literal", val |-> LiteralValue(text), type |-> <<>>, column |-> <<>>, path |-> <<>>]
JsonNode(column, path) ==
  [kind |-> "Json", val |-> Undefined, type |-> <<>>, column |-> column, path |-> path]

\* /timestamp/i.test(type)
IsTimestampType(type) ==
  \E i \in 1..Len(type) : WordIncludes(ToUpperCase(type[i]), "TIMESTAMP")

\* The node after lines 194-197: a Cast to a timestamp type gets the type datetime.
CastToDatetime(smth) ==
  IF smth.kind = "Cast" /\ IsTimestampType(smth.type)
  THEN [smth EXCEPT !.type = <<"datetime">>]
  ELSE smth

\* handleSequelizeMethod of the abstract generator: CAST(<value> AS <TYPE>) for a
\* Cast, the text of a Literal.
AbstractHandleSequelizeMethod(smth) ==
  IF smth.kind = "Cast"
  THEN CatAll(<<<<"CAST", "(">>, escape(smth.val).text, <<" ", "AS", " ">>,
                [i \in 1..Len(smth.type) |-> ToUpperCase(smth.type[i])], <<")">>>>)
  ELSE smth.val.value

handleSequelizeMethod(smth) ==
  IF smth.kind = "Json"
  THEN jsonPathExtractionQuery(smth.column, smth.path)
  ELSE AbstractHandleSequelizeMethod(CastToDatetime(smth))

SequelizeMethods ==
  {CastNode(v, t) : v \in {NumberValue(1), StringValue(<<"v">>)},
                    t \in {<<"timestamp">>, <<"TIMESTAMP">>, <<"integer">>, <<"datetime">>,
                           <<"timestamp", " ", "with", " ", "time", " ", "zone">>}}
    \cup {LiteralNode(<<"NOW", "(", ")">>)}
    \cup {JsonNode(<<"data">>, <<<<"a">>, <<"0">>>>)}

HandleSequelizeMethodCall ==
  /\ pc = "idle"
  /\ \E smth \in SequelizeMethods :
       /\ op' = "handleSequelizeMethod"
       /\ args' = [smth |-> smth]
       /\ heap' = [smth |-> IF smth.kind = "Json" THEN smth ELSE CastToDatetime(smth)]
       /\ sql' = handleSequelizeMethod(smth)
       /\ pc' = "returned"
       /\ UNCHANGED <<stmts, ip, db, bind, objects, scanVars, connectVars>>

\* The calls whose arguments are objects of the caller.
NextFrames ==
  \/ HandleSequelizeMethodCall
  \/ UpdateQueryCall
  \/ DeleteQueryCall
  \/ CreateTableCall

SpecFrames == Init /\ [][NextFrames]_vars

(***************************************************************************)
(* C21: no generation call changes the objects it is given: after          *)
(* updateQuery, deleteQuery, createTableQuery or handleSequelizeMethod     *)
(* the predicate tree and its nodes, the attribute definitions and the     *)
(* options of the caller are what they were when the call was made.        *)
(***************************************************************************)
GivenUnchanged ==
  CASE op = "handleSequelizeMethod" -> heap.smth = args.smth
    [] op = "createTableQuery" -> heap = args
    [] op = "updateQuery" ->
         /\ heap.where = args.where
         /\ heap.attrValueHash = args.attrValueHash
         /\ heap.options = OptionsObject(args.options)
    [] op = "deleteQuery" ->
         /\ heap.where = args.where
         /\ heap.options = OptionsObject(args.options)
    [] OTHER -> TRUE

C21_ArgumentsNotChanged == (pc # "idle") => GivenUnchanged

\* A Cast to TIMESTAMP is a Cast to datetime after the call.
C21_Witness ==
  /\ op = "handleSequelizeMethod"
  /\ pc = "returned"
  /\ args.smth = CastNode(NumberValue(1), <<"TIMESTAMP">>)
  /\ heap.smth.type = <<"datetime">>
  /\ sql = <<"CAST", "(", "1", " ", "AS", " ", "DATETIME", ")">>

(***************************************************************************)
(* C22: when all the statements of removeColumnQuery or renameColumnQuery  *)
(* have run in order against a database that had no backup table, the      *)
(* database has a table with the original name whose columns are exactly   *)
(* the described (post-change) columns, in their order, with one row for   *)
(* each original row and the values of the surviving or renamed columns    *)
(* unchanged, and it has no table named <original>_backup.                 *)
(***************************************************************************)
RecreationDone == op \in {"removeColumnQuery", "renameColumnQuery"} /\ pc = "done"

C22_RecreationResult ==
  RecreationDone =>
    /\ HasTable(db, args.tableName)
    /\ TableOf(db, args.tableName).cols = Keys(SqlAttributes)
    /\ HoldsOriginalRows(TableOf(db, args.tableName))
    /\ \A r \in 1..Len(OriginalTable.rows), i \in Survivors :
         TableOf(db, args.tableName).rows[r][i]
           = OriginalTable.rows[r][Position(OriginalTable.cols, SourceOf(SqlAttributes[i].key))]
    /\ ~HasTable(db, BackupTableName(args.tableName))
    /\ Cardinality(db) = 1

\* Column name has become nick and column id is gone; the rows kept their values.
C22_Witness ==
  /\ op = "renameColumnQuery"
  /\ pc = "done"
  /\ args.attrNameBefore = <<"name">>
  /\ args.attrNameAfter = <<"nick">>
  /\ TableOf(db, <<"t">>).cols = <<<<"age">>, <<"nick">>>>
  /\ TableOf(db, <<"t">>).rows = <<<<3, 2>>, <<6, 5>>>>
  /\ ~HasTable(db, <<"t_backup">>)

(***************************************************************************)
(* C23: every row cap supplied to deleteQuery or updateQuery caps the      *)
(* statement, a cap of 0 included: the text returned for options.limit = n *)
(* carries LIMIT n in its rowid subquery, as addLimitAndOffset writes      *)
(* LIMIT n for every limit that is not null or undefined, so a supplied    *)
(* limit never yields the statement of the call without a limit.           *)
(***************************************************************************)
LimitSupplied ==
  /\ op \in {"deleteQuery", "updateQuery"}
  /\ pc = "returned"
  /\ args.options.limit.typeof = "number"

C23_EveryLimitCaps ==
  /\ LimitSupplied =>
       /\ Includes(sql, <<"LIMIT", " ">> \o args.options.limit.value \o <<")">>)
       /\ sql # PlainQuery
  /\ (LimitOffsetReturned /\ args.options.limit.typeof = "number") =>
       Includes(sql, <<" ", "LIMIT", " ">> \o args.options.limit.value)

\* deleteQuery('t', {id: 7}, {limit: 0}) returns the delete of every matching row.
C23_Witness ==
  /\ op = "deleteQuery"
  /\ pc = "returned"
  /\ args.options.limit = NumberValue(0)
  /\ args.where # <<>>
  /\ sql = PlainQuery
  /\ ~Includes(sql, <<"LIMIT">>)
  /\ addLimitAndOffset([limit |-> NumberValue(0), offset |-> Undefined]) = <<" ", "LIMIT", " ", "0">>

(***************************************************************************)
(* C24: replaceBooleanDefaults changes only DEFAULT clauses whose value is *)
(* exactly the token true or false, bare or in single quotes: a statement  *)
(* with no such clause, for instance one whose only default is the string  *)
(* 'falsehood', is returned character for character as it was given.       *)
(***************************************************************************)
BooleanTokens == {"true", "false"}

\* DEFAULT followed by one space and the whole word true or false, bare or quoted.
HasExactBooleanDefault(s) ==
  \E i \in 1..(Len(s) - 2) :
    /\ EndsWithWord(s[i], "DEFAULT")
    /\ s[i + 1] = " "
    /\ \/ s[i + 2] \in BooleanTokens
       \/ /\ i + 4 <= Len(s)
          /\ s[i + 2] = SingleQuote
          /\ s[i + 3] \in BooleanTokens
          /\ s[i + 4] = SingleQuote

C24_OnlyExactBooleanDefaults ==
  (BooleanDefaultsReturned /\ ~HasExactBooleanDefault(args.sql)) => sql = args.sql

\* DEFAULT 'falsehood' comes back as DEFAULT 0hood'.
C24_Witness ==
  /\ BooleanDefaultsReturned
  /\ args.sql = <<"DEFAULT", " ", SingleQuote, "falsehood", SingleQuote>>
  /\ sql = <<"DEFAULT", " ", "0hood", SingleQuote>>

(***************************************************************************)
(* C25 as amended: in every table-recreation sequence each INSERT ...      *)
(* SELECT has no target column list and the i-th entry of its select list  *)
(* names, or is aliased to, the i-th key of the attribute map; in the      *)
(* sequences of removeColumnQuery and renameColumnQuery, whose CREATE      *)
(* TABLE statements are written from that map, the same sequence emits a   *)
(* CREATE TABLE for the table inserted into and the i-th entry names, or   *)
(* is aliased to, its i-th column.                                         *)
(***************************************************************************)
InsertsOf(statements) == {k \in 1..Len(statements) : StatementKind(statements[k]) = "INSERT"}

\* The CREATE TABLE statement before statement k that creates the table k inserts into.
CreateFor(statements, k) ==
  LET creates == {c \in 1..(k - 1) :
                    /\ StatementKind(statements[c]) = "CREATE"
                    /\ CreatedName(statements[c]).name = InsertTarget(statements[k]).name}
  IN  IF creates = {} THEN 0 ELSE CHOOSE c \in creates : \A d \in creates : d <= c

\* The name under which the i-th selected value is delivered.
DeliveredName(item) == IF item.alias # <<>> THEN item.alias ELSE item.column

NoTargetColumnList(s) == MatchAt(s, InsertTarget(s).next, <<" ", "SELECT", " ">>)

\* The select list delivers the columns of the CREATE TABLE emitted for its target.
AlignedWithCreate(statements, k) ==
  LET c == CreateFor(statements, k)
  IN  /\ c # 0
      /\ Len(SelectItems(statements[k])) = Len(CreateColumns(statements[c]))
      /\ \A i \in 1..Len(SelectItems(statements[k])) :
           DeliveredName(SelectItems(statements[k])[i]) = CreateColumns(statements[c])[i]

DeliveredNames(s) == [i \in 1..Len(SelectItems(s)) |-> DeliveredName(SelectItems(s)[i])]

MapDerived == {"removeColumnQuery", "renameColumnQuery"}

C25_SelectListMatchesCreate ==
  (op \in Recreations /\ pc # "idle") =>
    \A k \in InsertsOf(stmts) :
      /\ NoTargetColumnList(stmts[k])
      /\ DeliveredNames(stmts[k]) = Keys(SqlAttributes)
      /\ op \in MapDerived => AlignedWithCreate(stmts, k)

\* C25 as stated: in every table-recreation sequence, the one of _alterConstraintQuery
\* included, the select list of each INSERT ... SELECT is aligned with the CREATE TABLE
\* that the sequence emits for the table inserted into.
C25_Original ==
  (op \in Recreations /\ pc # "idle") =>
    \A k \in InsertsOf(stmts) : NoTargetColumnList(stmts[k]) /\ AlignedWithCreate(stmts, k)

\* A rename of id to nick with the map in the order age, nick: both inserts are aligned
\* with the CREATE TABLE of their target.
C25_Witness ==
  /\ op = "renameColumnQuery"
  /\ pc = "run"
  /\ InsertsOf(stmts) = {2, 5}
  /\ CreateFor(stmts, 2) = 1
  /\ CreateFor(stmts, 5) = 4
  /\ CreateColumns(stmts[1]) = <<<<"age">>, <<"nick">>>>
  /\ SelectColumns(stmts[2]) = <<<<"age">>, <<"id">>>>
  /\ SelectAliases(stmts[2]) = <<<<>>, <<"nick">>>>
  /\ SelectColumns(stmts[5]) = CreateColumns(stmts[4])

(***************************************************************************)
(* The scan of _checkValidJsonStatement run to its end: the call is        *)
(* synchronous code, so a step that can be taken is taken.                 *)
(***************************************************************************)
SpecJsonFair == InitJson /\ [][NextJson]_vars /\ WF_vars(NextJson)

(***************************************************************************)
(* C26: the scan loop of _checkValidJsonStatement terminates on every      *)
(* input: the call returns or throws; every iteration of the loop either   *)
(* moves currentIndex forward by at least one character or leaves the      *)
(* loop; and currentIndex never exceeds the length of the text.            *)
(***************************************************************************)
IterationAdvances == InLoop => (currentIndex' > currentIndex \/ scan' # "loop")

ScanLength == IF stmt.typeof = "string" THEN Len(stmt.value) ELSE 0

C26_ScanTerminates ==
  /\ <>(scan = "returned")
  /\ [][IterationAdvances]_vars
  /\ [](currentIndex <= ScanLength)

\* A scan that went over a function name, its parentheses and what stands between them,
\* and reached the end of the text.
C26_Witness ==
  /\ scan = "returned"
  /\ hasJsonFunction
  /\ openingBrackets = 1
  /\ closingBrackets = 1
  /\ currentIndex = Len(stmt.value)
  /\ currentIndex >= 6

(***************************************************************************)
(* SnowflakeConnectionManager.connect.  A timezone is the sequence of its  *)
(* characters.  The driver calls back with an error or with a connection;  *)
(* an error carries a code, the empty code standing for an error without   *)
(* one.                                                                    *)
(***************************************************************************)
DriverCodes ==
  {"ECONNREFUSED", "ER_ACCESS_DENIED_ERROR", "ENOTFOUND", "EHOSTUNREACH", "EINVAL",
   "ETIMEDOUT", ""}

Timezones ==
  {<<"+", "0", "0", ":", "0", "0">>, <<"+", "0", "2", ":", "0", "0">>,
   <<"E", "t", "c", "/", "U", "T", "C">>, <<"A", "s", "i", "a", "/", "T", "o", "k", "y", "o">>,
   <<"U", "T", "C">>}

DefaultTimezone == <<"+", "0", "0", ":", "0", "0">>

\* The configured timezone taken as it is.
tzOffsetAsConfigured(timezone) == timezone

\* this.sequelize.options.timezone === '+00:00' ? 'Etc/UTC' : this.sequelize.options.timezone
tzOffset(timezone) ==
  IF timezone = DefaultTimezone THEN <<"E", "t", "c", "/", "U", "T", "C">> ELSE timezone

\* /\//.test(tzOffset)
isNamedTzOffset(tz) == \E i \in 1..Len(tz) : tz[i] = "/"

\* The switch on error.code of the catch block.
ErrorClassOf(code) ==
  CASE code = "ECONNREFUSED" -> "ConnectionRefusedError"
    [] code = "ER_ACCESS_DENIED_ERROR" -> "AccessDeniedError"
    [] code = "ENOTFOUND" -> "HostNotFoundError"
    [] code = "EHOSTUNREACH" -> "HostNotReachableError"
    [] code = "EINVAL" -> "InvalidConnectionError"
    [] OTHER -> "ConnectionError"

\* connect(config) is called: createConnection(connectionConfig).connect(...)
ConnectCall ==
  /\ connectPc = "idle"
  /\ \E keepDefaultTimezone \in BOOLEAN, timezone \in Timezones :
       config' = [keepDefaultTimezone |-> keepDefaultTimezone, timezone |-> timezone]
  /\ connectPc' = "connecting"
  /\ UNCHANGED <<connection, sessionTimezone, error, thrown, runVars, scanVars>>

\* The driver calls back with an error: reject(err)
ConnectRejected ==
  /\ connectPc = "connecting"
  /\ \E code \in DriverCodes :
       error' = [caught |-> TRUE, code |-> code, message |-> "driver"]
  /\ connectPc' = "catch"
  /\ UNCHANGED <<config, connection, sessionTimezone, thrown, runVars, scanVars>>

\* The driver calls back with the connection: resolve(conn)
ConnectResolved ==
  /\ connectPc = "connecting"
  /\ connection' = "established"
  /\ connectPc' = "acquired"
  /\ UNCHANGED <<config, sessionTimezone, error, thrown, runVars, scanVars>>

\* keepDefaultTimezone is set: return connection
ReturnWithDefaultTimezone ==
  /\ connectPc = "acquired"
  /\ config.keepDefaultTimezone
  /\ connectPc' = "returned"
  /\ UNCHANGED <<config, connection, sessionTimezone, error, thrown, runVars, scanVars>>

\* The timezone names a zone: connection.execute(ALTER SESSION SET timezone = ...)
ExecuteAlterSession ==
  /\ connectPc = "acquired"
  /\ ~config.keepDefaultTimezone
  /\ isNamedTzOffset(tzOffset(config.timezone))
  /\ connectPc' = "executing"
  /\ UNCHANGED <<config, connection, sessionTimezone, error, thrown, runVars, scanVars>>

\* complete() without an error: resolve(), then return connection
AlterSessionCompleted ==
  /\ connectPc = "executing"
  /\ sessionTimezone' = tzOffset(config.timezone)
  /\ connectPc' = "returned"
  /\ UNCHANGED <<config, connection, error, thrown, runVars, scanVars>>

\* complete(err): reject(err)
AlterSessionRejected ==
  /\ connectPc = "executing"
  /\ \E code \in DriverCodes :
       error' = [caught |-> TRUE, code |-> code, message |-> "driver"]
  /\ connectPc' = "catch"
  /\ UNCHANGED <<config, connection, sessionTimezone, thrown, runVars, scanVars>>

\* throw new Error('only support time zone name for snowflake!')
TimezoneNotNamed ==
  /\ connectPc = "acquired"
  /\ ~config.keepDefaultTimezone
  /\ ~isNamedTzOffset(tzOffset(config.timezone))
  /\ error' = [caught |-> TRUE, code |-> "", message |-> "only support time zone name"]
  /\ connectPc' = "catch"
  /\ UNCHANGED <<config, connection, sessionTimezone, thrown, runVars, scanVars>>

\* catch (error): throw the class chosen by error.code
CatchAndThrow ==
  /\ connectPc = "catch"
  /\ thrown' = ErrorClassOf(error.code)
  /\ connectPc' = "threw"
  /\ UNCHANGED <<config, connection, sessionTimezone, error, runVars, scanVars>>

NextConnect ==
  \/ ConnectCall
  \/ ConnectRejected
  \/ ConnectResolved
  \/ ReturnWithDefaultTimezone
  \/ ExecuteAlterSession
  \/ AlterSessionCompleted
  \/ AlterSessionRejected
  \/ TimezoneNotNamed
  \/ CatchAndThrow

SpecConnect == Init /\ [][NextConnect]_vars

(***************************************************************************)
(* C27 as amended: connect either returns the established connection or    *)
(* throws the connection error class chosen by the code of the failure     *)
(* (ConnectionError for every code without a class of its own); no error   *)
(* leaves it unwrapped; and when keepDefaultTimezone is off and the        *)
(* connection was established, a configured timezone that is neither       *)
(* +00:00 nor a name with a slash makes it throw ConnectionError and not   *)
(* return the connection, while +00:00 is taken as Etc/UTC: the session is *)
(* set to that zone and the connection returned, unless the driver fails.  *)
(***************************************************************************)
ConnectionErrorClasses ==
  {"ConnectionRefusedError", "AccessDeniedError", "HostNotFoundError",
   "HostNotReachableError", "InvalidConnectionError", "ConnectionError"}

ConnectEnded == connectPc \in {"returned", "threw"}

ReturnsOrThrowsByCode ==
  /\ connectPc = "returned" => connection = "established" /\ ~error.caught /\ thrown = ""
  /\ connectPc = "threw" =>
       /\ error.caught
       /\ thrown \in ConnectionErrorClasses
       /\ error.code = "ECONNREFUSED" => thrown = "ConnectionRefusedError"
       /\ error.code = "ER_ACCESS_DENIED_ERROR" => thrown = "AccessDeniedError"
       /\ error.code = "ENOTFOUND" => thrown = "HostNotFoundError"
       /\ error.code = "EHOSTUNREACH" => thrown = "HostNotReachableError"
       /\ error.code = "EINVAL" => thrown = "InvalidConnectionError"
       /\ error.code \in {"ETIMEDOUT", ""} => thrown = "ConnectionError"
  /\ (connectPc \notin {"catch", "threw"}) => ~error.caught

HasSlash(timezone) == \E i \in 1..Len(timezone) : timezone[i] = "/"

FailsAfterEstablished ==
  /\ connectPc = "threw"
  /\ connection = "established"
  /\ thrown = "ConnectionError"
  /\ sessionTimezone = <<>>

C27_ConnectOutcome ==
  /\ ReturnsOrThrowsByCode
  /\ (ConnectEnded /\ connection = "established" /\ ~config.keepDefaultTimezone
        /\ ~HasSlash(config.timezone) /\ config.timezone # DefaultTimezone)
       => FailsAfterEstablished
  /\ (ConnectEnded /\ connection = "established" /\ ~config.keepDefaultTimezone
        /\ config.timezone = DefaultTimezone)
       => \/ connectPc = "returned" /\ sessionTimezone = <<"E", "t", "c", "/", "U", "T", "C">>
          \/ connectPc = "threw" /\ error.message = "driver"

\* C27 as stated: every configured timezone without a slash, +00:00 included, makes
\* connect fail with ConnectionError once the connection is established.
C27_Original ==
  /\ ReturnsOrThrowsByCode
  /\ (ConnectEnded /\ connection = "established" /\ ~config.keepDefaultTimezone
        /\ ~HasSlash(config.timezone))
       => FailsAfterEstablished

\* The timezone +02:00: the connection was established and connect threw ConnectionError.
C27_Witness ==
  /\ connectPc = "threw"
  /\ connection = "established"
  /\ ~config.keepDefaultTimezone
  /\ config.timezone = <<"+", "0", "2", ":", "0", "0">>
  /\ error.message = "only support time zone name"
  /\ thrown = "ConnectionError"

\* The timezone +00:00: the session is set to Etc/UTC and the connection is returned.
C27_DefaultTimezoneReturned ==
  /\ connectPc = "returned"
  /\ connection = "established"
  /\ ~config.keepDefaultTimezone
  /\ config.timezone = DefaultTimezone
  /\ sessionTimezone = <<"E", "t", "c", "/", "U", "T", "C">>

=============================================================================
